---- MODULE Spec2Model ----
(***************************************************************************)
(* Multi-layer concurrent risk scoring engine of FactState                 *)
(* (micro-services/ecom_det_fin): the Safety Gate (risk_rules.py), the     *)
(* layer orchestrator and aggregator (scoring.py evaluate_all) and the     *)
(* check_site request handler (routers/site.py).                           *)
(*                                                                         *)
(* Representation.                                                         *)
(*  - A message is a sequence of words; Python's substring test            *)
(*    `marker in msg` is containment of the marker's words as a            *)
(*    contiguous run, and " ".join(messages) is concatenation.             *)
(*    str.lower() is the operator Lower on words.                          *)
(*  - A host is a sequence of labels (split on "."), a label a sequence    *)
(*    of tokens (split on "-").                                            *)
(*  - Layer scores are whole points; weights are hundredths, so weighted   *)
(*    totals and gate scores are in hundredths of a point (Pt(n)).         *)
(***************************************************************************)
EXTENDS Integers, Sequences, FiniteSets, TLC

VARIABLES
    g_pc,        \* SpecGate: "call" before apply_safety_gates ran, "ret" after
    g_url,       \* SpecGate: url argument
    g_reasons,   \* SpecGate: reasons argument (list of dicts)
    g_raw,       \* SpecGate: raw_score argument
    g_out,       \* SpecGate: returned (score, badge)
    pc,          \* phase of the check_site request / evaluate_all coroutine
    url,         \* payload.url
    now,         \* wall clock
    t0,          \* time at which asyncio.gather started the six wrapped tasks
    t_join,      \* time at which asyncio.gather returned
    sync_time,   \* time spent in the synchronous domain and feedback layers
    d,           \* LayerResult of li_domain.analyze (mutated by the boost)
    d0,          \* the value li_domain.analyze returned, before any boost
    status,      \* per concurrent layer: state of its _with_timeout task
    res,         \* per concurrent layer: value _with_timeout returned
    late,        \* per concurrent layer: its value was produced after its deadline
    feedback,    \* (feedback_score, feedback_msg)
    reasons,     \* List[Reason] built by evaluate_all
    total,       \* raw weighted total after clamping
    ret,         \* adjusted_score returned by evaluate_all
    resp,        \* RiskResult returned by check_site
    scans,       \* SiteScan rows committed by check_site
    l_pc,        \* SpecLayers: "call" before the layers ran, "ret" after
    l_url,       \* SpecLayers: url argument, host written in characters
    l_age,       \* SpecLayers: outcome of the whois age lookup
    l_idna,      \* SpecLayers: outcome of idna.encode
    l_html,      \* SpecLayers: html_content argument of the merchant layer
    l_typo,      \* SpecLayers: value of _detect_typosquatting
    l_dom,       \* SpecLayers: LayerResult of the domain layer
    l_mer,       \* SpecLayers: LayerResult of the merchant layer
    p_pc,        \* SpecPair: "call1", "call2", then "ret"
    p_url,       \* SpecPair: url of both calls of apply_safety_gates
    p_rs1,       \* SpecPair: reasons of the first call
    p_rs2,       \* SpecPair: reasons of the second call, the same in some order
    p_raw1,      \* SpecPair: raw score of the first call
    p_raw2,      \* SpecPair: raw score of the second call
    p_out1,      \* SpecPair: (score, badge) of the first call
    p_out2,      \* SpecPair: (score, badge) of the second call
    t_pc,        \* SpecTwice: "request1", "request2", then "done"
    t_url,       \* SpecTwice: url of both requests
    t_dom,       \* SpecTwice: what li_domain.analyze returns for the url
    t_res,       \* SpecTwice: what _with_timeout returns for each gathered layer
    t_rows,      \* SpecTwice: feedback rows of the url in the database
    t_scans,     \* SpecTwice: the SiteScan table
    t_ans1,      \* SpecTwice: answer to the first request
    t_ans2,      \* SpecTwice: answer to the second request
    w_pc,        \* SpecWeights: "call", then "ret"
    w_json,      \* SpecWeights: RISK_WEIGHTS_JSON of the environment
    w_url,       \* SpecWeights: url of the request
    w_dom,       \* SpecWeights: what li_domain.analyze returns
    w_res,       \* SpecWeights: what _with_timeout returns for each layer
    w_out,       \* SpecWeights: how the request ended
    b_pc,        \* SpecBadge: "call", then "ret"
    b_score,     \* SpecBadge: argument of to_badge, in hundredths
    b_badge,     \* SpecBadge: value of to_badge
    f_table,     \* SpecFeedback: the Feedback table, rows in insertion order
    f_last       \* SpecFeedback: url and result of the last summarize_feedback

gvars == <<g_pc, g_url, g_reasons, g_raw, g_out>>

evars == <<pc, url, now, t0, t_join, sync_time, d, d0, status, res, late,
           feedback, reasons, total, ret, resp, scans>>

lvars == <<l_pc, l_url, l_age, l_idna, l_html, l_typo, l_dom, l_mer>>

pvars == <<p_pc, p_url, p_rs1, p_rs2, p_raw1, p_raw2, p_out1, p_out2>>

tvars == <<t_pc, t_url, t_dom, t_res, t_rows, t_scans, t_ans1, t_ans2>>

wvars == <<w_pc, w_json, w_url, w_dom, w_res, w_out>>

bvars == <<b_pc, b_score, b_badge>>

fvars == <<f_table, f_last>>

vars == <<gvars, evars, lvars, pvars, tvars, wvars, bvars, fvars>>

\* what an action of one specification leaves alone
non_gvars == <<evars, lvars, pvars, tvars, wvars, bvars, fvars>>
non_evars == <<gvars, lvars, pvars, tvars, wvars, bvars, fvars>>
non_lvars == <<gvars, evars, pvars, tvars, wvars, bvars, fvars>>
non_pvars == <<gvars, evars, lvars, tvars, wvars, bvars, fvars>>
non_tvars == <<gvars, evars, lvars, pvars, wvars, bvars, fvars>>
non_wvars == <<gvars, evars, lvars, pvars, tvars, bvars, fvars>>
non_bvars == <<gvars, evars, lvars, pvars, tvars, wvars, fvars>>
non_fvars == <<gvars, evars, lvars, pvars, tvars, wvars, bvars>>

----------------------------------------------------------------------------
(* Scalars *)

Scale == 100
Pt(n) == n * Scale

Max(a, b) == IF a >= b THEN a ELSE b
Min(a, b) == IF a <= b THEN a ELSE b

----------------------------------------------------------------------------
(* Text *)

\* str.lower() on one word
Lower(wd) ==
    CASE wd = "CRITICAL" -> "critical"
      [] wd = "THREAT" -> "threat"
      [] wd = "Typosquatting" -> "typosquatting"
      [] wd = "Homograph" -> "homograph"
      [] wd = "Could" -> "could"
      [] wd = "HTML" -> "html"
      [] wd = "Failed" -> "failed"
      [] wd = "SUSPICIOUS" -> "suspicious"
      [] wd = "VERIFIED" -> "verified"
      [] wd = "Merchant" -> "merchant"
      [] wd = "No" -> "no"
      [] wd = "SSL" -> "ssl"
      [] OTHER -> wd

LowerMsg(m) == [i \in 1..Len(m) |-> Lower(m[i])]

\* Python `marker in text`
Contains(text, marker) ==
    \E i \in 1..(Len(text) - Len(marker) + 1) :
        \A j \in 1..Len(marker) : text[i + j - 1] = marker[j]

RECURSIVE JoinMessages(_)
\* " ".join([str(r.get("message", "")) for r in reasons])
JoinMessages(rs) ==
    IF rs = <<>> THEN <<>>
    ELSE Head(rs).message \o JoinMessages(Tail(rs))

----------------------------------------------------------------------------
(* risk_rules.py *)

verified_major_platforms ==
    { << <<"amazon">>, <<"com">> >>,
      << <<"flipkart">>, <<"com">> >>,
      << <<"paypal">>, <<"com">> >> }

is_verified_host(host) ==
    \/ host \in verified_major_platforms
    \/ /\ Len(host) >= 2
       /\ Head(host) = <<"www">>
       /\ Tail(host) \in verified_major_platforms

PHISHING_TOKENS ==
    { "refund", "order", "support", "help", "verify", "verification",
      "payment", "pay", "secure", "security", "account", "update", "login",
      "billing", "wallet", "upi", "reset", "unlock" }

BADGE_ORDER == <<"Verified Safe", "Low Risk", "Caution", "High Risk", "Critical">>

BadgeIndex(b) == CHOOSE i \in 1..Len(BADGE_ORDER) : BADGE_ORDER[i] = b

host_tokens(host) ==
    LET parts == IF Len(host) >= 2 THEN SubSeq(host, 1, Len(host) - 1) ELSE host
    IN UNION { { Lower(parts[i][j]) : j \in 1..Len(parts[i]) } : i \in 1..Len(parts) }

\* urlparse(url).hostname, lower-cased
Hostname(u) == [i \in 1..Len(u.host) |-> LowerMsg(u.host[i])]

failure_markers ==
    { <<"timed", "out">>, <<"could", "not", "fetch">>, <<"failed">>,
      <<"not", "html">>, <<"no", "ssl">>,
      <<"certificate", "verification", "failed">> }

RECURSIVE CountFailures(_, _)
\* risk_rules.py:54-61, the loop over reasons
CountFailures(host, rs) ==
    IF rs = <<>> THEN 0
    ELSE LET r == Head(rs)
             msg == LowerMsg(r.message)
             rest == CountFailures(host, Tail(rs))
         IN IF is_verified_host(host) /\ r.layer = "merchant_verification"
            THEN rest
            ELSE IF \E m \in failure_markers : Contains(msg, m)
                 THEN rest + 1
                 ELSE rest

\* FailureFloor without the "any failure" rule of risk_rules.py:64-68
FailureFloor_OnlyThree(host, failures) ==
    IF failures >= 3 THEN "Caution" ELSE "Verified Safe"

\* risk_rules.py:63-71, min_badge after the failure rules
FailureFloor(host, failures) ==
    LET mb == IF failures >= 1
              THEN IF is_verified_host(host) /\ failures = 1
                   THEN "Verified Safe"
                   ELSE "Caution"
              ELSE "Verified Safe"
    IN IF failures >= 3 THEN "Caution" ELSE mb

\* risk_rules.py:69-70
FailurePenalty(failures) == IF failures >= 3 THEN Pt(20) ELSE 0

\* risk_rules.py:73-75
PhishingHit(host, tokens) ==
    /\ \E tok \in PHISHING_TOKENS : tok \in tokens
    /\ ~is_verified_host(host)

\* risk_rules.py:76
PhishingPenalty(hit) == IF hit THEN Pt(25) ELSE 0

\* CriticalWording that forgets the "homograph" keyword
CriticalWording_NoHomograph(text) ==
    \/ Contains(text, <<"typosquatting">>)
    \/ Contains(text, <<"critical", "threat">>)

\* risk_rules.py:79
CriticalWording(text) ==
    \/ Contains(text, <<"typosquatting">>)
    \/ Contains(text, <<"critical", "threat">>)
    \/ Contains(text, <<"homograph">>)

\* risk_rules.py:80
CriticalFloor(score) == Max(score, Pt(70))

\* ClampScore without the upper bound
ClampScore_NoCeiling(score) == Max(0, score)

\* risk_rules.py:83
ClampScore(score) == Max(0, Min(Pt(100), score))

\* the buckets with the first two badges exchanged
ScoreBucket_Swapped(score) ==
    IF score < Pt(25) THEN "Caution"
    ELSE IF score < Pt(45) THEN "Low Risk"
    ELSE IF score < Pt(70) THEN "High Risk"
    ELSE "Critical"

\* risk_rules.py:88-95
ScoreBucket(score) ==
    IF score < Pt(25) THEN "Low Risk"
    ELSE IF score < Pt(45) THEN "Caution"
    ELSE IF score < Pt(70) THEN "High Risk"
    ELSE "Critical"

\* FinalBadge granting Verified Safe on the score alone
FinalBadge_IgnoresFailures(failures, score, min_badge) ==
    IF score < Pt(18)
    THEN "Verified Safe"
    ELSE LET badge == ScoreBucket(score)
         IN IF BadgeIndex(badge) < BadgeIndex(min_badge)
            THEN min_badge
            ELSE badge

\* risk_rules.py:85-101
FinalBadge(failures, score, min_badge) ==
    IF failures = 0 /\ score < Pt(18)
    THEN "Verified Safe"
    ELSE LET badge == ScoreBucket(score)
         IN IF BadgeIndex(badge) < BadgeIndex(min_badge)
            THEN min_badge
            ELSE badge

apply_safety_gates(u, rs, raw_score) ==
    LET host == Hostname(u)
        tokens == host_tokens(host)
        text == LowerMsg(JoinMessages(rs))
        failures == CountFailures(host, rs)
        mb1 == FailureFloor(host, failures)
        s1 == raw_score + FailurePenalty(failures)
        hit == PhishingHit(host, tokens)
        s2 == s1 + PhishingPenalty(hit)
        mb2 == IF hit THEN "Caution" ELSE mb1
        crit == CriticalWording(text)
        s3 == IF crit THEN CriticalFloor(s2) ELSE s2
        mb3 == IF crit THEN "High Risk" ELSE mb2
        score == ClampScore(s3)
    IN [score |-> score, badge |-> FinalBadge(failures, score, mb3)]

----------------------------------------------------------------------------
(* scoring.py *)

LR(sc, msg) == [score |-> sc, message |-> msg]

NoLR == LR(0, <<>>)

DEFAULT_WEIGHTS ==
    [ domain_infra |-> 25, content_ux |-> 10, business_verification |-> 15,
      technical_verification |-> 8, merchant_verification |-> 30,
      visual_brand |-> 5, threat_intel |-> 12, user_feedback |-> 5 ]

\* RISK_WEIGHTS_JSON: unset, a text json.loads rejects, a JSON value that is
\* no object, an object with a value that is no number, or an object of
\* numbers (table: layer name -> number)
UnsetJson == [kind |-> "unset"]

\* sum(data.values())
TableTotal(table) ==
    LET RECURSIVE Sum(_)
        Sum(ks) == IF ks = {} THEN 0
                   ELSE LET k == CHOOSE x \in ks : TRUE
                        IN table[k] + Sum(ks \ {k})
    IN Sum(DOMAIN table)

\* config.py Settings.weights: the table of RISK_WEIGHTS_JSON divided by its
\* total when json.loads, sum and float all succeed and the total is
\* positive; DEFAULT_WEIGHTS when the variable is unset, when anything
\* raised (except Exception: pass) and when the total is not positive
Settings_weights(json) ==
    IF json.kind = "object" /\ TableTotal(json.table) > 0
    THEN [k \in DOMAIN json.table |->
            (Scale * json.table[k]) \div TableTotal(json.table)]
    ELSE DEFAULT_WEIGHTS

\* settings.weights of a deployment with RISK_WEIGHTS_JSON unset
settings_weights == Settings_weights(UnsetJson)

\* dict.get(layer, default)
w_get(w, layer, default) == IF layer \in DOMAIN w THEN w[layer] ELSE default

\* the six layers run under asyncio.gather, in argument order
ConcurrentLayers ==
    <<"content_ux", "visual_brand", "threat_intel", "business_verification",
      "technical_verification", "merchant_verification">>

CL == { ConcurrentLayers[i] : i \in 1..Len(ConcurrentLayers) }

timeout_sec ==
    [ content_ux |-> 8, visual_brand |-> 5, threat_intel |-> 8,
      business_verification |-> 10, technical_verification |-> 8,
      merchant_verification |-> 10 ]

fallback_score ==
    [ content_ux |-> 15, visual_brand |-> 5, threat_intel |-> 0,
      business_verification |-> 25, technical_verification |-> 15,
      merchant_verification |-> 30 ]

fallback_message ==
    [ content_ux |-> <<"Content_UX", "analysis", "failed">>,
      visual_brand |-> <<"Visual_brand", "analysis", "failed">>,
      threat_intel |-> <<"Threat", "intel", "check", "failed">>,
      business_verification |-> <<"Business", "verification", "failed">>,
      technical_verification |-> <<"Technical", "verification", "failed">>,
      merchant_verification |-> <<"Merchant", "verification", "failed">> ]

\* _with_timeout without its except Exception clause
with_timeout_catches_OnlyTimeout == { "TimeoutError" }

\* the except clauses of _with_timeout
with_timeout_catches == { "TimeoutError", "Exception" }

\* _with_timeout, except asyncio.TimeoutError
TimedOutResult(layer) == LR(fallback_score[layer], <<layer, "timed", "out">>)

\* _with_timeout, except Exception
ErrorResult(layer) == LR(fallback_score[layer], fallback_message[layer])

Deadline(layer) == t0 + timeout_sec[layer]

Settled(layer) == status[layer] \in {"returned", "raised", "timedout"}

----------------------------------------------------------------------------
(* Layers: the values each analyze() can return *)

\* VERIFIED_MAJOR_PLATFORMS of the domain, merchant and technical layers, as
\* labels: allow-listed there and in the settings (amazon.com, flipkart.com)
\* or only there (ebay.com)
layer_major_platforms ==
    { << <<"amazon">>, <<"com">> >>,
      << <<"flipkart">>, <<"com">> >>,
      << <<"ebay">>, <<"com">> >> }

\* domain.lower() in VERIFIED_MAJOR_PLATFORMS
IsPlatform(u) == Hostname(u) \in layer_major_platforms

\* layers/domain_infra.py analyze
DomainResults(u) ==
    IF IsPlatform(u)
    THEN { LR(0, <<"VERIFIED", "MAJOR", "PLATFORM">>) }
    ELSE { LR(10, <<"Unknown", "domain", "age">>),
           LR(95, <<"CRITICAL", "THREAT", "Known", "typosquatting", "pattern">>) }

\* layers/content_ux.py analyze
ContentResults(u) ==
    { LR(10, <<"Strict", "mode", "floor">>) }

\* layers/visual_brand.py analyze
VisualResults(u) ==
    { LR(5, <<"Visual_brand", "checks", "not", "enabled">>) }

\* layers/threat_intel.py analyze
ThreatResults(u) ==
    { LR(10, <<"No", "external", "threat", "intel">>) }

\* layers/business_verification.py analyze
BusinessResults(u) ==
    IF Hostname(u) \in verified_major_platforms
    THEN { LR(0, <<"VERIFIED", "BUSINESS">>) }
    ELSE { LR(30, <<"Could", "not", "fetch", "content">>),
           LR(12, <<"Valid", "GST", "number", "found">>) }

\* layers/merchant_verification.py analyze
MerchantResults(u) ==
    IF IsPlatform(u)
    THEN { LR(0, <<"VERIFIED", "PLATFORM", "bypassed">>) }
    ELSE { LR(20, <<"Not", "a", "recognized", "platform">>),
           LR(80, <<"Merchant", "information", "not", "found">>) }

\* layers/technical_verification.py analyze, certificate read from the socket
TechSocketResults(u) ==
    { LR(0, <<"Trusted", "SSL", "certificate">>) }

\* layers/technical_verification.py analyze, after the httpx fallback
TechHttpxResults(u) ==
    { LR(40, <<"SSL", "certificate", "verification", "failed">>) }

LayerResults(layer, u) ==
    CASE layer = "content_ux" -> ContentResults(u)
      [] layer = "visual_brand" -> VisualResults(u)
      [] layer = "threat_intel" -> ThreatResults(u)
      [] layer = "business_verification" -> BusinessResults(u)
      [] layer = "merchant_verification" -> MerchantResults(u)
      [] layer = "technical_verification" -> TechHttpxResults(u)

\* summarize_feedback taking every stored scan of the url for a failure report
summarize_feedback_CountsScans(rows) ==
    LET failed == rows.failed + Len(t_scans)
        tot == rows.delivered + failed
    IN IF tot = 0 THEN LR(5, <<"No", "user", "feedback", "yet">>)
       ELSE IF failed = 0 THEN LR(0, <<"verified", "deliveries", "no", "failures">>)
       ELSE LR(Min(100, (80 * failed) \div tot), <<"Feedback", "failures", "reports">>)

\* layers/user_feedback.py summarize_feedback over the rows of the url
summarize_feedback(rows) ==
    LET delivered == rows.delivered
        failed == rows.failed
        tot == delivered + failed
    IN IF tot = 0 THEN LR(5, <<"No", "user", "feedback", "yet">>)
       ELSE IF failed = 0 THEN LR(0, <<"verified", "deliveries", "no", "failures">>)
       ELSE LR(Min(100, (80 * failed) \div tot), <<"Feedback", "failures", "reports">>)

----------------------------------------------------------------------------
(* scoring.py evaluate_all: correlation rule and weighted sum *)

analysis_keywords ==
    { <<"failed">>, <<"could", "not">>, <<"timed", "out">>, <<"not", "found">> }

CorrelatedLayers ==
    { "content_ux", "business_verification", "technical_verification",
      "merchant_verification" }

\* the filter without its score threshold
IsAnalysisFailure_AnyScore(r) ==
    \E k \in analysis_keywords : Contains(LowerMsg(r.message), k)

\* scoring.py:128, the filter of the generator
IsAnalysisFailure(r) ==
    /\ r.score >= 25
    /\ \E k \in analysis_keywords : Contains(LowerMsg(r.message), k)

\* scoring.py:126-128
analysis_failures(r) == Cardinality({ l \in CorrelatedLayers : IsAnalysisFailure(r[l]) })

\* str(n) inside the f-string of scoring.py:134
NumWord(n) == CASE n = 3 -> "3" [] n = 4 -> "4" [] OTHER -> "n"

suspicion_bonus == 35

\* the boost already applied when two systems failed
BoostDomain_FromTwo(dr, n) ==
    IF n >= 2
    THEN LR(Min(100, dr.score + suspicion_bonus),
            dr.message \o <<"SUSPICIOUS", NumWord(n), "systems", "failed">>)
    ELSE dr

\* the boost without the annotation of the message
BoostDomain_Silent(dr, n) ==
    IF n >= 3
    THEN LR(Min(100, dr.score + suspicion_bonus), dr.message)
    ELSE dr

\* scoring.py:131-134
BoostDomain(dr, n) ==
    IF n >= 3
    THEN LR(Min(100, dr.score + suspicion_bonus),
            dr.message \o <<"SUSPICIOUS", NumWord(n), "systems", "failed">>)
    ELSE dr

Part(layer, r, w, default) ==
    [layer |-> layer, score |-> r.score, message |-> r.message,
     weight |-> w_get(w, layer, default)]

\* scoring.py:136-145
Parts(dr, r, fbk, w) ==
    << Part("domain_infra", dr, w, 25),
       Part("content_ux", r["content_ux"], w, 10),
       Part("business_verification", r["business_verification"], w, 15),
       Part("technical_verification", r["technical_verification"], w, 8),
       Part("merchant_verification", r["merchant_verification"], w, 30),
       Part("visual_brand", r["visual_brand"], w, 5),
       Part("threat_intel", r["threat_intel"], w, 12),
       Part("user_feedback", fbk, w, 5) >>

RECURSIVE SumParts_SkipLast(_)
\* the weighted sum leaving out the last part
SumParts_SkipLast(parts) ==
    IF Len(parts) <= 1 THEN 0
    ELSE Head(parts).score * Head(parts).weight + SumParts_SkipLast(Tail(parts))

RECURSIVE SumParts(_)
\* scoring.py:147-150, total += s * weight
SumParts(parts) ==
    IF parts = <<>> THEN 0
    ELSE Head(parts).score * Head(parts).weight + SumParts(Tail(parts))

\* scoring.py:151
MakeReasons(parts) ==
    [i \in 1..Len(parts) |->
        [layer |-> parts[i].layer, message |-> parts[i].message,
         weight |-> parts[i].weight, score |-> parts[i].score]]

\* scoring.py:153
ClampTotal(t) == Max(0, Min(Pt(100), t))

\* scoring.py BADGE_THRESHOLDS, (low, high) of each range
BADGE_THRESHOLDS ==
    [ trusted |-> <<Pt(0), Pt(40)>>, caution |-> <<Pt(40), Pt(70)>>,
      high |-> <<Pt(70), Pt(100)>> ]

\* to_badge comparing with <= where the code compares with <
to_badge_BoundaryBelow(score) ==
    IF score <= BADGE_THRESHOLDS.trusted[2] THEN "Trusted"
    ELSE IF score <= BADGE_THRESHOLDS.caution[2] THEN "Caution"
    ELSE "High Risk"

\* scoring.py to_badge; the strings of the code carry a leading symbol each
\* (check mark, warning sign, cross), left out here
to_badge(score) ==
    IF score < BADGE_THRESHOLDS.trusted[2] THEN "Trusted"
    ELSE IF score < BADGE_THRESHOLDS.caution[2] THEN "Caution"
    ELSE "High Risk"

advice_for(score) ==
    IF score < Pt(25) THEN "Safe to proceed"
    ELSE IF score < Pt(45) THEN "Generally safe with minor concerns"
    ELSE IF score < Pt(70) THEN "Exercise caution"
    ELSE IF score < Pt(85) THEN "High risk - avoid unless verified"
    ELSE "Do not proceed - likely fraudulent"

----------------------------------------------------------------------------
(* Domain layer (layers/domain_infra.py) and the allow-list bypass of the   *)
(* merchant layer, on hosts written character by character                  *)

\* domain_infra.py:26-30 (the same set in merchant_verification.py:27-31
\* and technical_verification.py:16-20)
VERIFIED_MAJOR_PLATFORMS ==
    { <<"a", "m", "a", "z", "o", "n", ".", "c", "o", "m">>,
      <<"f", "l", "i", "p", "k", "a", "r", "t", ".", "c", "o", "m">>,
      <<"m", "y", "n", "t", "r", "a", ".", "c", "o", "m">>,
      <<"a", "j", "i", "o", ".", "c", "o", "m">>,
      <<"n", "y", "k", "a", "a", ".", "c", "o", "m">>,
      <<"m", "e", "e", "s", "h", "o", ".", "c", "o", "m">>,
      <<"s", "n", "a", "p", "d", "e", "a", "l", ".", "c", "o", "m">>,
      <<"s", "h", "o", "p", "c", "l", "u", "e", "s", ".", "c", "o", "m">>,
      <<"p", "a", "y", "t", "m", "m", "a", "l", "l", ".", "c", "o", "m">>,
      <<"e", "b", "a", "y", ".", "c", "o", "m">>,
      <<"a", "l", "i", "b", "a", "b", "a", ".", "c", "o", "m">>,
      <<"w", "a", "l", "m", "a", "r", "t", ".", "c", "o", "m">>,
      <<"t", "a", "r", "g", "e", "t", ".", "c", "o", "m">>,
      <<"b", "e", "s", "t", "b", "u", "y", ".", "c", "o", "m">> }

\* domain_infra.py:32-36, with the leading dot
SUSPICIOUS_TLDS ==
    { <<".", "t", "k">>,
      <<".", "m", "l">>,
      <<".", "g", "a">>,
      <<".", "c", "f">>,
      <<".", "t", "o", "p">>,
      <<".", "c", "l", "i", "c", "k">>,
      <<".", "d", "o", "w", "n", "l", "o", "a", "d">>,
      <<".", "s", "t", "r", "e", "a", "m">>,
      <<".", "s", "c", "i", "e", "n", "c", "e">>,
      <<".", "r", "a", "c", "i", "n", "g">>,
      <<".", "c", "r", "i", "c", "k", "e", "t">>,
      <<".", "p", "a", "r", "t", "y">>,
      <<".", "r", "e", "v", "i", "e", "w">>,
      <<".", "f", "a", "i", "t", "h">>,
      <<".", "a", "c", "c", "o", "u", "n", "t", "a", "n", "t">>,
      <<".", "l", "o", "a", "n">>,
      <<".", "m", "e", "n">>,
      <<".", "b", "i", "d">>,
      <<".", "t", "r", "a", "d", "e">>,
      <<".", "w", "i", "n">> }

\* domain_infra.py:38-41
HOSTED_STOREFRONT_SUFFIXES ==
    { <<"m", "y", "s", "h", "o", "p", "i", "f", "y", ".", "c", "o", "m">>,
      <<"b", "i", "g", "c", "o", "m", "m", "e", "r", "c", "e", ".", "c", "o", "m">>,
      <<"s", "q", "u", "a", "r", "e", "s", "p", "a", "c", "e", ".", "c", "o", "m">>,
      <<"w", "i", "x", ".", "c", "o", "m">>,
      <<"s", "h", "o", "p", "i", "f", "y", ".", "c", "o", "m">>,
      <<"w", "o", "r", "d", "p", "r", "e", "s", "s", ".", "c", "o", "m">>,
      <<"w", "e", "b", "f", "l", "o", "w", ".", "i", "o">> }

\* domain_infra.py:43-53, in the order of the dict
CANONICAL_BRANDS ==
    << [brand |-> <<"a", "m", "a", "z", "o", "n">>,
        canon |-> { <<"a", "m", "a", "z", "o", "n", ".", "c", "o", "m">>,
                    <<"a", "m", "a", "z", "o", "n", ".", "i", "n">>,
                    <<"a", "m", "a", "z", "o", "n", ".", "c", "o", ".", "u", "k">> }],
       [brand |-> <<"f", "l", "i", "p", "k", "a", "r", "t">>,
        canon |-> { <<"f", "l", "i", "p", "k", "a", "r", "t", ".", "c", "o", "m">> }],
       [brand |-> <<"g", "o", "o", "g", "l", "e">>,
        canon |-> { <<"g", "o", "o", "g", "l", "e", ".", "c", "o", "m">>,
                    <<"g", "o", "o", "g", "l", "e", ".", "c", "o", ".", "i", "n">> }],
       [brand |-> <<"f", "a", "c", "e", "b", "o", "o", "k">>,
        canon |-> { <<"f", "a", "c", "e", "b", "o", "o", "k", ".", "c", "o", "m">>,
                    <<"m", "e", "t", "a", ".", "c", "o", "m">> }],
       [brand |-> <<"p", "a", "y", "p", "a", "l">>,
        canon |-> { <<"p", "a", "y", "p", "a", "l", ".", "c", "o", "m">> }],
       [brand |-> <<"a", "p", "p", "l", "e">>,
        canon |-> { <<"a", "p", "p", "l", "e", ".", "c", "o", "m">> }],
       [brand |-> <<"m", "i", "c", "r", "o", "s", "o", "f", "t">>,
        canon |-> { <<"m", "i", "c", "r", "o", "s", "o", "f", "t", ".", "c", "o", "m">> }],
       [brand |-> <<"m", "y", "n", "t", "r", "a">>,
        canon |-> { <<"m", "y", "n", "t", "r", "a", ".", "c", "o", "m">> }],
       [brand |-> <<"n", "y", "k", "a", "a">>,
        canon |-> { <<"n", "y", "k", "a", "a", ".", "c", "o", "m">> }] >>

\* domain_infra.py:55-58
DOMAIN_PHISHING_TOKENS ==
    { <<"r", "e", "f", "u", "n", "d">>,
      <<"o", "r", "d", "e", "r">>,
      <<"s", "u", "p", "p", "o", "r", "t">>,
      <<"v", "e", "r", "i", "f", "y">>,
      <<"p", "a", "y", "m", "e", "n", "t">>,
      <<"a", "c", "c", "o", "u", "n", "t">>,
      <<"l", "o", "g", "i", "n">>,
      <<"s", "e", "c", "u", "r", "e">>,
      <<"s", "e", "c", "u", "r", "i", "t", "y">>,
      <<"u", "p", "d", "a", "t", "e">>,
      <<"b", "i", "l", "l", "i", "n", "g">>,
      <<"w", "a", "l", "l", "e", "t">>,
      <<"u", "p", "i">>,
      <<"r", "e", "s", "e", "t">>,
      <<"u", "n", "l", "o", "c", "k">> }

\* domain_infra.py:91-99, the patterns of every brand
typosquat_patterns ==
    { <<"a", "m", "z", "o", "n">>,
      <<"a", "m", "a", "z", "o", "m">>,
      <<"a", "m", "a", "z", "o", "n", "e">>,
      <<"a", "m", "a", "z", "n">>,
      <<"a", "m", "a", "o", "z", "n">>,
      <<"a", "m", "a", "x", "o", "n">>,
      <<"a", "m", "z", "a", "o", "n">>,
      <<"f", "l", "i", "p", "k", "r", "t">>,
      <<"f", "l", "i", "p", "k", "a", "t">>,
      <<"f", "l", "i", "k", "a", "r", "t">>,
      <<"f", "l", "p", "k", "a", "r", "t">>,
      <<"f", "l", "i", "p", "c", "a", "r", "t">>,
      <<"g", "o", "o", "g", "e", "l">>,
      <<"g", "o", "g", "l", "e">>,
      <<"g", "o", "o", "g", "l">>,
      <<"g", "o", "o", "l", "g", "e">>,
      <<"g", "o", "o", "o", "g", "l", "e">>,
      <<"f", "a", "c", "b", "o", "o", "k">>,
      <<"f", "a", "c", "e", "b", "u", "k">>,
      <<"f", "a", "c", "b", "o", "o", "o", "k">>,
      <<"f", "a", "c", "e", "b", "o", "k">>,
      <<"p", "a", "y", "p", "4", "l">>,
      <<"p", "a", "y", "a", "p", "l">>,
      <<"p", "a", "i", "p", "a", "l">>,
      <<"p", "a", "y", "p", "a", "l", "1">>,
      <<"a", "p", "l", "e">>,
      <<"a", "p", "p", "e", "l">>,
      <<"a", "p", "l", "l", "e">>,
      <<"a", "p", "p", "l", "l", "e">>,
      <<"m", "i", "r", "c", "o", "s", "o", "f", "t">>,
      <<"m", "i", "c", "r", "o", "s", "o", "o", "f", "t">>,
      <<"m", "i", "c", "o", "r", "s", "o", "f", "t">> }

\* str.lower() on the characters the urls below use
LowerChar(c) ==
    CASE c = "A" -> "a"
      [] c = "M" -> "m"
      [] c = "Z" -> "z"
      [] c = "O" -> "o"
      [] c = "N" -> "n"
      [] OTHER -> c

LowerStr(s) == [i \in 1..Len(s) |-> LowerChar(s[i])]

\* the host as written, without lower-casing
UrlHostname_AsWritten(u) == u.host

\* urlparse(url).hostname: the host in lower case
UrlHostname(u) == LowerStr(u.host)

RECURSIVE SplitOn(_, _)
\* str.split(sep) for a one-character separator
SplitOn(s, sep) ==
    IF \A i \in 1..Len(s) : s[i] # sep
    THEN << s >>
    ELSE LET k == CHOOSE i \in 1..Len(s) :
                      s[i] = sep /\ \A j \in 1..(i - 1) : s[j] # sep
         IN << SubSeq(s, 1, k - 1) >> \o SplitOn(SubSeq(s, k + 1, Len(s)), sep)

\* str.count(c) for one character
CountChar(s, c) == Cardinality({ i \in 1..Len(s) : s[i] = c })

StartsWith(s, prefix) ==
    Len(prefix) <= Len(s) /\ SubSeq(s, 1, Len(prefix)) = prefix

EndsWith(s, suffix) ==
    Len(suffix) <= Len(s) /\ SubSeq(s, Len(s) - Len(suffix) + 1, Len(s)) = suffix

IsDigit(c) == c \in { "0", "1", "2", "3", "4", "5", "6", "7", "8", "9" }

\* the first label taken for the second-level one
SecondLevel_First(domain) == SplitOn(domain, ".")[1]

\* parts[-2] if len(parts) >= 2 else parts[0]
SecondLevel(domain) ==
    LET labels == SplitOn(domain, ".")
    IN IF Len(labels) >= 2 THEN labels[Len(labels) - 1] ELSE labels[1]

\* sum(1 for a, b in zip(x, y) if a != b)
DiffCount(x, y) ==
    Cardinality({ i \in 1..Min(Len(x), Len(y)) : x[i] # y[i] })

RECURSIVE RunLen(_, _, _, _, _, _)
\* length of the common run of a from i and b from j inside the windows
RunLen(a, b, i, j, ahi, bhi) ==
    IF i > ahi \/ j > bhi THEN 0
    ELSE IF a[i] # b[j] THEN 0
    ELSE 1 + RunLen(a, b, i + 1, j + 1, ahi, bhi)

RECURSIVE MatchCount(_, _, _, _, _, _)
\* difflib.SequenceMatcher.get_matching_blocks: the longest common block
\* (earliest in a, then earliest in b), then the same to its left and right
MatchCount(a, b, alo, ahi, blo, bhi) ==
    IF alo > ahi \/ blo > bhi THEN 0
    ELSE LET cand == { p \in (alo..ahi) \X (blo..bhi) : a[p[1]] = b[p[2]] }
         IN IF cand = {} THEN 0
            ELSE LET best == CHOOSE p \in cand : \A q \in cand :
                        LET kp == RunLen(a, b, p[1], p[2], ahi, bhi)
                            kq == RunLen(a, b, q[1], q[2], ahi, bhi)
                        IN \/ kp > kq
                           \/ /\ kp = kq
                              /\ \/ p[1] < q[1]
                                 \/ p[1] = q[1] /\ p[2] <= q[2]
                     k == RunLen(a, b, best[1], best[2], ahi, bhi)
                 IN k + MatchCount(a, b, alo, best[1] - 1, blo, best[2] - 1)
                      + MatchCount(a, b, best[1] + k, ahi, best[2] + k, bhi)

\* SequenceMatcher(None, a, b).ratio() >= pct / 100, ratio = 2.0 * M / T
RatioAtLeast(a, b, pct) ==
    IF Len(a) + Len(b) = 0 THEN TRUE
    ELSE 200 * MatchCount(a, b, 1, Len(a), 1, Len(b)) >= pct * (Len(a) + Len(b))

\* any(c in domain for c in canon_list)
IsCanonical(domain, b) == \E c \in b.canon : Contains(domain, c)

RECURSIVE CharAnalysis(_, _, _)
\* domain_infra.py:107-127, the loop over CANONICAL_BRANDS from brand i
CharAnalysis(domain, sld, i) ==
    IF i > Len(CANONICAL_BRANDS) THEN 0
    ELSE LET b == CANONICAL_BRANDS[i]
             gap == IF Len(sld) >= Len(b.brand)
                    THEN Len(sld) - Len(b.brand) ELSE Len(b.brand) - Len(sld)
         IN IF IsCanonical(domain, b) THEN CharAnalysis(domain, sld, i + 1)
            ELSE IF Len(sld) = Len(b.brand)
                 THEN IF DiffCount(sld, b.brand) = 1 THEN 80
                      ELSE IF DiffCount(sld, b.brand) = 2 THEN 70
                      ELSE CharAnalysis(domain, sld, i + 1)
            ELSE IF gap <= 2 /\ RatioAtLeast(sld, b.brand, 85) THEN 75
            ELSE CharAnalysis(domain, sld, i + 1)

\* domain_infra.py:81-129 _detect_typosquatting
detect_typosquatting(domain) ==
    IF domain = <<>> THEN 0
    ELSE IF LowerStr(SecondLevel(domain)) \in typosquat_patterns THEN 85
    ELSE CharAnalysis(domain, LowerStr(SecondLevel(domain)), 1)

\* one contribution to the domain risk: points and the reason appended
Item(pts, words) == [pts |-> pts, words |-> words]

\* domain_infra.py:149-156
TyposquatItems(domain) ==
    LET r == detect_typosquatting(domain)
    IN IF r >= 75
       THEN << Item(r, <<"CRITICAL", "THREAT", "Known", "typosquatting", "pattern">>) >>
       ELSE IF r >= 50
       THEN << Item(r, <<"HIGH", "THREAT", "Suspicious", "brand", "impersonation">>) >>
       ELSE IF r > 0 THEN << Item(r, <<>>) >>
       ELSE <<>>

\* domain_infra.py:158-161
SchemeItems(scheme) ==
    IF scheme # "https" THEN << Item(20, <<"No", "HTTPS", "detected">>) >> ELSE <<>>

\* domain_infra.py:163-175; age is the outcome of _domain_age_days
AgeItems(age) ==
    IF ~age.known THEN << Item(10, <<"Unknown", "domain", "age">>) >>
    ELSE IF age.days < 30 THEN << Item(40, <<"Domain", "age", "under", "30", "days">>) >>
    ELSE IF age.days < 180 THEN << Item(20, <<"Domain", "age", "under", "180", "days">>) >>
    ELSE <<>>

\* domain_infra.py:177-184
TldItems(domain) ==
    LET labels == SplitOn(domain, ".")
        tld == IF CountChar(domain, ".") > 0
               THEN <<".">> \o labels[Len(labels)] ELSE <<".">>
    IN IF LowerStr(tld) \in SUSPICIOUS_TLDS
       THEN << Item(10, <<"Suspicious", "TLD">>) >> ELSE <<>>

\* domain_infra.py:186-197; idna is "missing" when the package is absent,
\* otherwise whether idna.encode accepts the domain
IdnaItems(domain, idna) ==
    IF idna = "missing" THEN <<>>
    ELSE IF StartsWith(domain, <<"x", "n", "-", "-">>)
    THEN << Item(10, <<"IDN", "punycode", "domain">>) >>
    ELSE IF idna = "invalid"
    THEN << Item(5, <<"Invalid", "IDNA", "domain", "encoding">>) >>
    ELSE <<>>

\* domain_infra.py:199-202
SubdomainItems(domain) ==
    IF CountChar(domain, ".") >= 3
    THEN << Item(10, <<"Many", "subdomains">>) >> ELSE <<>>

RECURSIVE LookalikePass(_, _, _)
\* domain_infra.py:210-231, the loop over CANONICAL_BRANDS from brand i
LookalikePass(domain, sld, i) ==
    IF i > Len(CANONICAL_BRANDS) THEN <<>>
    ELSE LET b == CANONICAL_BRANDS[i]
         IN IF IsCanonical(domain, b) THEN LookalikePass(domain, sld, i + 1)
            ELSE IF RatioAtLeast(LowerStr(sld), LowerStr(b.brand), 90)
            THEN << Item(65, <<"CRITICAL", "Typosquatting", "attack", "detected">>) >>
            ELSE IF RatioAtLeast(LowerStr(sld), LowerStr(b.brand), 82)
            THEN << Item(45, <<"HIGH", "RISK", "Brand", "lookalike", "domain">>) >>
            ELSE IF RatioAtLeast(LowerStr(sld), LowerStr(b.brand), 75)
            THEN << Item(25, <<"SUSPICIOUS", "Similar", "to", "known", "brand">>) >>
            ELSE LookalikePass(domain, sld, i + 1)

\* domain_infra.py:204-233
LookalikeItems(domain) ==
    IF \E suf \in HOSTED_STOREFRONT_SUFFIXES : EndsWith(domain, suf)
    THEN <<>>
    ELSE LookalikePass(domain, SecondLevel(domain), 1)

\* domain_infra.py:235-250
HeuristicItems(domain) ==
    LET sld == SecondLevel(domain)
        digits == Cardinality({ i \in 1..Len(sld) : IsDigit(sld[i]) })
    IN (IF CountChar(sld, "-") >= 2
        THEN << Item(10, <<"Many", "hyphens", "in", "domain">>) >> ELSE <<>>)
       \o (IF digits >= 3
           THEN << Item(10, <<"Many", "digits", "in", "domain">>) >> ELSE <<>>)
       \o (IF Len(sld) >= 20
           THEN << Item(5, <<"Very", "long", "domain", "name">>) >> ELSE <<>>)

\* domain_infra.py:254-258, the hyphen-split tokens of the labels before the
\* last two (before the last one for a host of at most two labels)
SubdomainTokens(domain) ==
    LET labels == SplitOn(LowerStr(domain), ".")
        n == IF Len(labels) > 2 THEN Len(labels) - 2 ELSE Len(labels) - 1
    IN UNION { { t \in { SplitOn(labels[i], "-")[j] :
                            j \in 1..Len(SplitOn(labels[i], "-")) } : t # <<>> } :
               i \in 1..n }

\* domain_infra.py:252-263
IntentItems(domain) ==
    IF SubdomainTokens(domain) \cap DOMAIN_PHISHING_TOKENS # {}
    THEN << Item(25, <<"Suspicious", "intent", "in", "subdomain">>) >> ELSE <<>>

RECURSIVE SumPts(_)
SumPts(items) ==
    IF items = <<>> THEN 0 ELSE Head(items).pts + SumPts(Tail(items))

RECURSIVE JoinWords(_)
\* "; ".join(reasons)
JoinWords(items) ==
    IF items = <<>> THEN <<>> ELSE Head(items).words \o JoinWords(Tail(items))

\* domain_infra.py:149-263, every contribution in the order of the code
DomainItems(u, age, idna) ==
    LET domain == UrlHostname(u)
    IN TyposquatItems(domain) \o SchemeItems(u.scheme) \o AgeItems(age)
       \o TldItems(domain) \o IdnaItems(domain, idna) \o SubdomainItems(domain)
       \o LookalikeItems(domain) \o HeuristicItems(domain) \o IntentItems(domain)

\* domain_infra.py:132-266 analyze
domain_analyze(u, age, idna) ==
    IF UrlHostname(u) \in VERIFIED_MAJOR_PLATFORMS
    THEN LR(0, <<"VERIFIED", "MAJOR", "PLATFORM">>)
    ELSE LET items == DomainItems(u, age, idna)
         IN LR(Min(100, SumPts(items)),
               IF JoinWords(items) = <<>>
               THEN <<"No", "major", "domain", "infra", "red", "flags">>
               ELSE JoinWords(items))

\* merchant_verification.py:279-353 analyze; html is the pre-fetched page
\* ("none" when the caller passes no html_content)
merchant_analyze(u, html) ==
    IF UrlHostname(u) \in VERIFIED_MAJOR_PLATFORMS
    THEN { LR(0, <<"VERIFIED", "PLATFORM", "bypassed">>) }
    ELSE (IF html = "none"
          THEN { LR(40, <<"Could", "not", "fetch", "content">>) } ELSE {})
         \cup { LR(20, <<"Not", "a", "recognized", "platform">>),
                LR(80, <<"Merchant", "information", "not", "found">>) }

\* no call of the layers in progress
LayersIdle ==
    /\ l_pc = "idle"
    /\ l_url = [scheme |-> "https", host |-> <<"a">>]
    /\ l_age = [known |-> FALSE, days |-> 0]
    /\ l_idna = "missing"
    /\ l_html = "none"
    /\ l_typo = 0
    /\ l_dom = NoLR
    /\ l_mer = NoLR

----------------------------------------------------------------------------
(* One check_site request *)

H_amazon == << <<"amazon">>, <<"com">> >>
H_www_amazon == << <<"www">>, <<"amazon">>, <<"com">> >>
H_shop == << <<"shop">>, <<"example">>, <<"com">> >>
H_verify == << <<"verify", "account">>, <<"example">>, <<"com">> >>
H_login == << <<"login">> >>
H_pay_amazon == << <<"pay">>, <<"amazon">>, <<"com">> >>

SslConnectTimeout == 10
MaxWhoisBlock == 3
DomainTime == 1
FeedbackTime == 1
MaxFeedback == 1

TECH == "technical_verification"

Urls == { [scheme |-> "https", host |-> h] : h \in {H_amazon, H_verify} }

\* the urls of the single evaluation: an allow-listed host, a plain host and
\* a host with phishing tokens
EvalUrls == { [scheme |-> "https", host |-> h] : h \in {H_amazon, H_shop, H_verify} }

\* time the blocking socket.create_connection / TLS handshake holds the loop
SslBlocks == {0, SslConnectTimeout}

\* time the blocking whois.whois / gethostbyname calls hold the loop
WhoisBlocks == {0, MaxWhoisBlock}

\* Feedback rows stored for the url, as counts by delivered flag
FeedbackRows ==
    { rows \in [delivered : 0..MaxFeedback, failed : 0..MaxFeedback] :
        rows.delivered + rows.failed <= MaxFeedback }

NoResult == [score |-> 0, badge |-> "none"]

NoResp == [risk_score |-> 0, badge |-> "none", payment |-> "none"]

\* no pair of gate calls in progress
PairIdle ==
    /\ p_pc = "idle"
    /\ p_url = [scheme |-> "https", host |-> H_shop]
    /\ p_rs1 = <<>>
    /\ p_rs2 = <<>>
    /\ p_raw1 = 0
    /\ p_raw2 = 0
    /\ p_out1 = NoResult
    /\ p_out2 = NoResult

\* no answer yet
NoAnswer == [risk_score |-> 0, badge |-> "none", payment |-> "none",
             reasons |-> <<>>]

FeedbackIdle ==
    /\ f_table = <<>>
    /\ f_last = [url |-> [scheme |-> "https", host |-> H_shop], result |-> NoLR]

BadgeIdle ==
    /\ b_pc = "idle"
    /\ b_score = 0
    /\ b_badge = "none"

WeightsIdle ==
    /\ w_pc = "idle"
    /\ w_json = UnsetJson
    /\ w_url = [scheme |-> "https", host |-> H_shop]
    /\ w_dom = NoLR
    /\ w_res = [l \in CL |-> NoLR]
    /\ w_out = [kind |-> "none", answer |-> NoAnswer]

TwiceIdle ==
    /\ t_pc = "idle"
    /\ t_url = [scheme |-> "https", host |-> H_shop]
    /\ t_dom = NoLR
    /\ t_res = [l \in CL |-> NoLR]
    /\ t_rows = [delivered |-> 0, failed |-> 0]
    /\ t_scans = <<>>
    /\ t_ans1 = NoAnswer
    /\ t_ans2 = NoAnswer

EvalIdle ==
    /\ pc = "idle"
    /\ url = [scheme |-> "https", host |-> H_shop]
    /\ now = 0
    /\ t0 = 0
    /\ t_join = 0
    /\ sync_time = 0
    /\ d = NoLR
    /\ d0 = NoLR
    /\ status = [l \in CL |-> "new"]
    /\ res = [l \in CL |-> NoLR]
    /\ late = [l \in CL |-> FALSE]
    /\ feedback = NoLR
    /\ reasons = <<>>
    /\ total = 0
    /\ ret = 0
    /\ resp = NoResp
    /\ scans = <<>>

GateIdle ==
    /\ g_pc = "idle"
    /\ g_url = [scheme |-> "https", host |-> H_shop]
    /\ g_reasons = <<>>
    /\ g_raw = 0
    /\ g_out = NoResult

Init ==
    /\ FeedbackIdle
    /\ BadgeIdle
    /\ WeightsIdle
    /\ GateIdle
    /\ LayersIdle
    /\ PairIdle
    /\ TwiceIdle
    /\ pc = "Start"
    /\ url \in EvalUrls
    /\ now = 0
    /\ t0 = 0
    /\ t_join = 0
    /\ sync_time = 0
    /\ d = NoLR
    /\ d0 = NoLR
    /\ status = [l \in CL |-> "new"]
    /\ res = [l \in CL |-> NoLR]
    /\ late = [l \in CL |-> FALSE]
    /\ feedback = NoLR
    /\ reasons = <<>>
    /\ total = 0
    /\ ret = 0
    /\ resp = NoResp
    /\ scans = <<>>

\* an evaluate_all that hands the six tasks to gather without having run
\* the domain layer
StartEvaluation_SkipsDomain ==
    /\ pc = "Start"
    /\ t0' = now
    /\ status' = [l \in CL |-> IF l = TECH THEN "ready" ELSE "waiting"]
    /\ pc' = "ConcurrentLayersRunning"
    /\ UNCHANGED <<url, now, t_join, sync_time, d, d0, res, late,
                   feedback, reasons, total, ret, resp, scans>>
    /\ UNCHANGED non_evars

\* check_site awaits evaluate_all(url, session)
StartEvaluation ==
    /\ pc = "Start"
    /\ pc' = "DomainLayerRunning"
    /\ UNCHANGED <<url, now, t0, t_join, sync_time, d, d0, status, res, late,
                   feedback, reasons, total, ret, resp, scans>>
    /\ UNCHANGED non_evars

\* d = li_domain.analyze(url), then the six wrapped tasks are handed to
\* asyncio.gather; every wait_for timer is armed when gather starts
DomainAnalyze ==
    /\ pc = "DomainLayerRunning"
    /\ \E r \in DomainResults(url) : d' = r /\ d0' = r
    /\ now' = now + DomainTime
    /\ t0' = now + DomainTime
    /\ sync_time' = sync_time + DomainTime
    /\ status' = [l \in CL |-> IF l = TECH THEN "ready" ELSE "waiting"]
    /\ pc' = "ConcurrentLayersRunning"
    /\ UNCHANGED <<url, t_join, res, late, feedback, reasons, total, ret, resp, scans>>
    /\ UNCHANGED non_evars

\* a value or an exception leaving li_technical.analyze reaches wait_for
TechOutcomes(rs) == { [kind |-> "returned", lr |-> r] : r \in rs }
                      \cup { [kind |-> "raised", lr |-> ErrorResult(TECH)] }

\* an exception no except clause of _with_timeout names leaves gather and
\* evaluate_all
Propagates(exc) == exc \notin with_timeout_catches

TechFinish(o, t) ==
    /\ now' = t
    /\ IF o.kind = "raised" /\ Propagates("Exception")
       THEN pc' = "Raised" /\ UNCHANGED <<status, res, late>>
       ELSE /\ pc' = pc
            /\ status' = [status EXCEPT ![TECH] = o.kind]
            /\ res' = [res EXCEPT ![TECH] = o.lr]
            /\ late' = [late EXCEPT ![TECH] = t > Deadline(TECH)]

\* first step of the technical layer: platform bypass, or the blocking
\* socket connect; with a certificate in hand the blocking whois and DNS
\* calls follow without any await, otherwise the layer awaits httpx
TechFirstStep ==
    /\ pc = "ConcurrentLayersRunning"
    /\ status[TECH] = "ready"
    /\ IF IsPlatform(url)
       THEN TechFinish([kind |-> "returned",
                        lr |-> LR(0, <<"VERIFIED", "PLATFORM">>)], now)
       ELSE \E b1 \in SslBlocks :
              \/ \E b2 \in WhoisBlocks, o \in TechOutcomes(TechSocketResults(url)) :
                    TechFinish(o, now + b1 + b2)
              \/ /\ now' = now + b1
                 /\ status' = [status EXCEPT ![TECH] = "waiting"]
                 /\ UNCHANGED <<pc, res, late>>
    /\ UNCHANGED <<url, t0, t_join, sync_time, d, d0, feedback, reasons, total,
                   ret, resp, scans>>
    /\ UNCHANGED non_evars

\* the httpx response of the technical layer arrives before its timer is
\* due; the blocking whois and DNS calls follow without any await
TechResume ==
    /\ pc = "ConcurrentLayersRunning"
    /\ status[TECH] = "waiting"
    /\ now < Deadline(TECH)
    /\ \E b2 \in WhoisBlocks, o \in TechOutcomes(TechHttpxResults(url)) :
          TechFinish(o, now + b2)
    /\ UNCHANGED <<url, t0, t_join, sync_time, d, d0, feedback, reasons, total,
                   ret, resp, scans>>
    /\ UNCHANGED non_evars

\* the awaited network call of a layer completes before its timer is due
\* and analyze() returns
LayerReturns(layer) ==
    /\ pc = "ConcurrentLayersRunning"
    /\ layer # TECH
    /\ status[TECH] # "ready"
    /\ status[layer] = "waiting"
    /\ now < Deadline(layer)
    /\ \E r \in LayerResults(layer, url) :
          res' = [res EXCEPT ![layer] = r]
    /\ status' = [status EXCEPT ![layer] = "returned"]
    /\ UNCHANGED <<pc, url, now, t0, t_join, sync_time, d, d0, late, feedback,
                   reasons, total, ret, resp, scans>>
    /\ UNCHANGED non_evars

\* analyze() raises; _with_timeout's except Exception substitutes the fallback
LayerRaises(layer) ==
    /\ pc = "ConcurrentLayersRunning"
    /\ layer # TECH
    /\ status[TECH] # "ready"
    /\ status[layer] = "waiting"
    /\ now < Deadline(layer)
    /\ IF Propagates("Exception")
       THEN pc' = "Raised" /\ UNCHANGED <<status, res>>
       ELSE /\ pc' = pc
            /\ res' = [res EXCEPT ![layer] = ErrorResult(layer)]
            /\ status' = [status EXCEPT ![layer] = "raised"]
    /\ UNCHANGED <<url, now, t0, t_join, sync_time, d, d0, late, feedback,
                   reasons, total, ret, resp, scans>>
    /\ UNCHANGED non_evars

\* the wait_for timer of a suspended layer is due: the layer is cancelled
\* and _with_timeout's except asyncio.TimeoutError substitutes the fallback
LayerTimesOut(layer) ==
    /\ pc = "ConcurrentLayersRunning"
    /\ status[TECH] # "ready"
    /\ status[layer] = "waiting"
    /\ now >= Deadline(layer)
    /\ IF Propagates("TimeoutError")
       THEN pc' = "Raised" /\ UNCHANGED <<status, res, late>>
       ELSE /\ pc' = pc
            /\ res' = [res EXCEPT ![layer] = TimedOutResult(layer)]
            /\ status' = [status EXCEPT ![layer] = "timedout"]
            /\ late' = [late EXCEPT ![layer] = TRUE]
    /\ UNCHANGED <<url, now, t0, t_join, sync_time, d, d0, feedback,
                   reasons, total, ret, resp, scans>>
    /\ UNCHANGED non_evars

Waiting == { l \in CL : status[l] = "waiting" }

NextDeadline == CHOOSE t \in { Deadline(l) : l \in Waiting } :
                    \A l \in Waiting : t <= Deadline(l)

\* the loop is idle: time passes until the earliest armed timer
Tick ==
    /\ pc = "ConcurrentLayersRunning"
    /\ status[TECH] # "ready"
    /\ Waiting # {}
    /\ \A l \in Waiting : now < Deadline(l)
    /\ now' = NextDeadline
    /\ UNCHANGED <<pc, url, t0, t_join, sync_time, d, d0, status, res, late,
                   feedback, reasons, total, ret, resp, scans>>
    /\ UNCHANGED non_evars

\* a gather that resumes on the first finished task
GatherDone_FirstCompleted == \E l \in CL : Settled(l)

\* await asyncio.gather(...): resumes when every task is done
GatherDone == \A l \in CL : Settled(l)

\* asyncio.gather returns the six results
Join ==
    /\ pc = "ConcurrentLayersRunning"
    /\ GatherDone
    /\ t_join' = now
    /\ pc' = "FeedbackLayerRunning"
    /\ UNCHANGED <<url, now, t0, sync_time, d, d0, status, res, late, feedback,
                   reasons, total, ret, resp, scans>>
    /\ UNCHANGED non_evars

\* fr = li_feedback.summarize_feedback(session, url)
FeedbackRead ==
    /\ pc = "FeedbackLayerRunning"
    /\ \E rows \in FeedbackRows : feedback' = summarize_feedback(rows)
    /\ now' = now + FeedbackTime
    /\ sync_time' = sync_time + FeedbackTime
    /\ pc' = "Aggregating"
    /\ UNCHANGED <<url, t0, t_join, d, d0, status, res, late, reasons, total,
                   ret, resp, scans>>
    /\ UNCHANGED non_evars

\* correlation rule, parts, weighted sum and clamp
Aggregate ==
    /\ pc = "Aggregating"
    /\ LET dr == BoostDomain(d, analysis_failures(res))
           parts == Parts(dr, res, feedback, settings_weights)
       IN /\ d' = dr
          /\ reasons' = MakeReasons(parts)
          /\ total' = ClampTotal(SumParts(parts))
    /\ pc' = "Gating"
    /\ UNCHANGED <<d0, url, now, t0, t_join, sync_time, status, res, late,
                   feedback, ret, resp, scans>>
    /\ UNCHANGED non_evars

\* adjusted_score, gated_badge = apply_safety_gates(url, reason_dicts, total);
\* evaluate_all returns (adjusted_score, reasons)
Gate ==
    /\ pc = "Gating"
    /\ ret' = apply_safety_gates(url, reasons, total).score
    /\ pc' = "Done"
    /\ UNCHANGED <<url, now, t0, t_join, sync_time, d, d0, status, res, late,
                   feedback, reasons, total, resp, scans>>
    /\ UNCHANGED non_evars

\* routers/site.py check_site after evaluate_all returned: gate, advice,
\* commit of the SiteScan row, response
CheckSiteRespond ==
    /\ pc = "Done"
    /\ \E g \in { apply_safety_gates(url, reasons, ret) } :
          /\ resp' = [risk_score |-> g.score, badge |-> g.badge,
                      payment |-> advice_for(g.score)]
          /\ scans' = Append(scans, [url |-> url, risk_score |-> g.score,
                                     badge |-> g.badge])
    /\ pc' = "Responded"
    /\ UNCHANGED <<url, now, t0, t_join, sync_time, d, d0, status, res, late,
                   feedback, reasons, total, ret>>
    /\ UNCHANGED non_evars

Next ==
    \/ StartEvaluation
    \/ DomainAnalyze
    \/ TechFirstStep
    \/ TechResume
    \/ \E l \in CL : LayerReturns(l)
    \/ \E l \in CL : LayerRaises(l)
    \/ \E l \in CL : LayerTimesOut(l)
    \/ Tick
    \/ Join
    \/ FeedbackRead
    \/ Aggregate
    \/ Gate
    \/ CheckSiteRespond

Spec == Init /\ [][Next]_vars

----------------------------------------------------------------------------
(* Two requests for the same url, one after the other.  Each request is one
   call of check_site, taken as a whole.  What the world answers is fixed
   for both: the value of the domain layer, what _with_timeout hands back
   for each gathered layer (the layer's value, the fallback after an
   exception or the fallback after a timeout) and the feedback rows.  What a
   request leaves behind is its SiteScan row. *)

\* what _with_timeout(layer.analyze(...)) can hand back
LayerOutcomes(layer, u) ==
    { TimedOutResult(layer), ErrorResult(layer) }
        \cup (IF layer # TECH THEN LayerResults(layer, u)
              ELSE IF IsPlatform(u) THEN { LR(0, <<"VERIFIED", "PLATFORM">>) }
              ELSE TechSocketResults(u) \cup TechHttpxResults(u))

\* what asyncio.gather can hand back: one outcome per layer
GatherOutcomes(u) ==
    [ content_ux : LayerOutcomes("content_ux", u),
      visual_brand : LayerOutcomes("visual_brand", u),
      threat_intel : LayerOutcomes("threat_intel", u),
      business_verification : LayerOutcomes("business_verification", u),
      technical_verification : LayerOutcomes("technical_verification", u),
      merchant_verification : LayerOutcomes("merchant_verification", u) ]

\* scoring.py evaluate_all, from the responses to (adjusted_score, reasons)
evaluate_all(u, dom, r, rows, json) ==
    LET fbk == summarize_feedback(rows)
        dr == BoostDomain(dom, analysis_failures(r))
        parts == Parts(dr, r, fbk, Settings_weights(json))
        rs == MakeReasons(parts)
    IN [score |-> apply_safety_gates(u, rs, ClampTotal(SumParts(parts))).score,
        reasons |-> rs]

\* routers/site.py check_site: evaluate_all, the gate, the advice; the row
\* written to SiteScan carries the same score and badge
check_site(u, dom, r, rows, json) ==
    LET e == evaluate_all(u, dom, r, rows, json)
        g == apply_safety_gates(u, e.reasons, e.score)
    IN [risk_score |-> g.score, badge |-> g.badge,
        payment |-> advice_for(g.score), reasons |-> e.reasons]

ScanRow(u, a) == [url |-> u, risk_score |-> a.risk_score, badge |-> a.badge]

TwiceInit ==
    /\ FeedbackIdle
    /\ BadgeIdle
    /\ WeightsIdle
    /\ GateIdle
    /\ EvalIdle
    /\ LayersIdle
    /\ PairIdle
    /\ t_pc = "request1"
    /\ t_url \in Urls
    /\ t_dom \in DomainResults(t_url)
    /\ t_res \in GatherOutcomes(t_url)
    /\ t_rows \in FeedbackRows
    /\ t_scans = <<>>
    /\ t_ans1 = NoAnswer
    /\ t_ans2 = NoAnswer

\* POST /check_site
FirstRequest ==
    /\ t_pc = "request1"
    /\ \E a \in { check_site(t_url, t_dom, t_res, t_rows, UnsetJson) } :
          /\ t_ans1' = a
          /\ t_scans' = Append(t_scans, ScanRow(t_url, a))
    /\ t_pc' = "request2"
    /\ UNCHANGED <<t_url, t_dom, t_res, t_rows, t_ans2>>
    /\ UNCHANGED non_tvars

\* POST /check_site again, same url
SecondRequest ==
    /\ t_pc = "request2"
    /\ \E a \in { check_site(t_url, t_dom, t_res, t_rows, UnsetJson) } :
          /\ t_ans2' = a
          /\ t_scans' = Append(t_scans, ScanRow(t_url, a))
    /\ t_pc' = "done"
    /\ UNCHANGED <<t_url, t_dom, t_res, t_rows, t_ans1>>
    /\ UNCHANGED non_tvars

TwiceNext ==
    \/ FirstRequest
    \/ SecondRequest

SpecTwice == TwiceInit /\ [][TwiceNext]_vars

----------------------------------------------------------------------------
(* One request under each setting of RISK_WEIGHTS_JSON *)

\* weight tables an operator may have written, as JSON objects of numbers
WeightTables ==
    { DEFAULT_WEIGHTS,
      [ domain_infra |-> 30, content_ux |-> 10, business_verification |-> 15,
        technical_verification |-> 8, merchant_verification |-> 30,
        visual_brand |-> 5, threat_intel |-> 2 ],
      [ domain_infra |-> 1, merchant_verification |-> 1 ],
      [ domain_infra |-> 0 ] }

WeightSettings ==
    { UnsetJson, [kind |-> "not_json"], [kind |-> "not_object"],
      [kind |-> "non_numeric"] }
        \cup { [kind |-> "object", table |-> t] : t \in WeightTables }

WeightsInit ==
    /\ FeedbackIdle
    /\ BadgeIdle
    /\ GateIdle
    /\ EvalIdle
    /\ LayersIdle
    /\ PairIdle
    /\ TwiceIdle
    /\ w_pc = "call"
    /\ w_json \in WeightSettings
    /\ w_url \in Urls
    /\ w_dom \in DomainResults(w_url)
    /\ w_res \in { r \in GatherOutcomes(w_url) :
                      /\ r.content_ux \in ContentResults(w_url)
                      /\ r.visual_brand \in VisualResults(w_url)
                      /\ r.threat_intel \in ThreatResults(w_url) }
    /\ w_out = [kind |-> "none", answer |-> NoAnswer]

\* POST /check_site: settings.weights raises nothing and w.get(layer,
\* default) finds a weight for every layer, so the request is answered
WeightsRequest ==
    /\ w_pc = "call"
    /\ w_out' = [kind |-> "answered",
                 answer |-> check_site(w_url, w_dom, w_res,
                                       [delivered |-> 0, failed |-> 0], w_json)]
    /\ w_pc' = "ret"
    /\ UNCHANGED <<w_json, w_url, w_dom, w_res>>
    /\ UNCHANGED non_wvars

WeightsNext ==
    \/ WeightsRequest

SpecWeights == WeightsInit /\ [][WeightsNext]_vars

----------------------------------------------------------------------------
(* to_badge on its own *)

\* how far below 0 and above 100 the scores tried go, in points
BadgeScoreSpan == 5

\* scores in steps of a tenth of a point, as the unit test has them
BadgeScores ==
    { t * (Scale \div 10) :
        t \in (0 - 10 * BadgeScoreSpan)..(10 * (100 + BadgeScoreSpan)) }

BadgeInit ==
    /\ FeedbackIdle
    /\ GateIdle
    /\ EvalIdle
    /\ LayersIdle
    /\ PairIdle
    /\ TwiceIdle
    /\ WeightsIdle
    /\ b_pc = "call"
    /\ b_score \in BadgeScores
    /\ b_badge = "none"

\* to_badge(score)
BadgeCall ==
    /\ b_pc = "call"
    /\ b_badge' = to_badge(b_score)
    /\ b_pc' = "ret"
    /\ UNCHANGED b_score
    /\ UNCHANGED non_bvars

BadgeNext ==
    \/ BadgeCall

SpecBadge == BadgeInit /\ [][BadgeNext]_vars

----------------------------------------------------------------------------
(* The Feedback table: submissions and the feedback layer's reading *)

\* rows the table can hold
MaxFeedbackRows == 4

\* select(Feedback).where(Feedback.url == url) taking rows of every url
feedback_query_AnyUrl(table, u) ==
    [ delivered |-> Cardinality({ i \in 1..Len(table) : table[i].delivered }),
      failed |-> Cardinality({ i \in 1..Len(table) : ~table[i].delivered }) ]

\* user_feedback.py:14-20: the rows of the url, counted by delivered flag
feedback_query(table, u) ==
    [ delivered |-> Cardinality({ i \in 1..Len(table) :
                        table[i].url = u /\ table[i].delivered }),
      failed |-> Cardinality({ i \in 1..Len(table) :
                        table[i].url = u /\ ~table[i].delivered }) ]

FeedbackInit ==
    /\ GateIdle
    /\ EvalIdle
    /\ LayersIdle
    /\ PairIdle
    /\ TwiceIdle
    /\ WeightsIdle
    /\ BadgeIdle
    /\ f_table = <<>>
    /\ f_last = [url |-> [scheme |-> "https", host |-> H_shop], result |-> NoLR]

\* POST /feedback: one row added and committed
SubmitFeedback ==
    /\ Len(f_table) < MaxFeedbackRows
    /\ \E u \in Urls, delivered \in BOOLEAN :
          f_table' = Append(f_table, [url |-> u, delivered |-> delivered])
    /\ UNCHANGED f_last
    /\ UNCHANGED non_fvars

\* li_feedback.summarize_feedback(session, url)
SummarizeFeedback ==
    /\ \E u \in Urls :
          f_last' = [url |-> u,
                     result |-> summarize_feedback(feedback_query(f_table, u))]
    /\ UNCHANGED f_table
    /\ UNCHANGED non_fvars

FeedbackNext ==
    \/ SubmitFeedback
    \/ SummarizeFeedback

SpecFeedback == FeedbackInit /\ [][FeedbackNext]_vars

----------------------------------------------------------------------------
(* Inputs of the Safety Gate specification *)

MaxReasons == 3

GateHosts == { H_amazon, H_www_amazon, H_shop, H_verify, H_login, H_pay_amazon }

GateUrls == { [scheme |-> "https", host |-> h] : h \in GateHosts }

GateRaws == { Pt(0 - 30), 0, Pt(10), Pt(17), Pt(18), Pt(30), Pt(60), Pt(90), Pt(130) }

GateReasonChoices ==
    { [layer |-> "content_ux", message |-> <<"Basic", "checks", "passed">>],
      [layer |-> "content_ux", message |-> <<"content_ux", "timed", "out">>],
      [layer |-> "business_verification", message |-> <<"Business", "verification", "Failed">>],
      [layer |-> "merchant_verification", message |-> <<"Merchant", "verification", "failed">>],
      [layer |-> "merchant_verification", message |-> <<"Merchant", "information", "not", "found">>],
      [layer |-> "domain_infra", message |-> <<"Typosquatting", "attack", "detected">>],
      [layer |-> "domain_infra", message |-> <<"Homograph", "domain">>],
      [layer |-> "domain_infra", message |-> <<"CRITICAL", "THREAT", "Known", "pattern">>],
      [layer |-> "domain_infra", message |-> <<"risk", "is", "CRITICAL">>],
      [layer |-> "threat_intel", message |-> <<"THREAT", "intel", "unavailable">>] }

GateReasonLists ==
    UNION { [1..n -> GateReasonChoices] : n \in 0..MaxReasons }

GateInit ==
    /\ FeedbackIdle
    /\ BadgeIdle
    /\ WeightsIdle
    /\ EvalIdle
    /\ TwiceIdle
    /\ LayersIdle
    /\ PairIdle
    /\ g_pc = "call"
    /\ g_url \in GateUrls
    /\ g_raw \in GateRaws
    /\ g_reasons \in GateReasonLists
    /\ g_out = NoResult

\* one call of apply_safety_gates(url, reasons, raw_score)
GateCall ==
    /\ g_pc = "call"
    /\ g_out' = apply_safety_gates(g_url, g_reasons, g_raw)
    /\ g_pc' = "ret"
    /\ UNCHANGED <<g_url, g_reasons, g_raw>>
    /\ UNCHANGED non_gvars

GateNext == GateCall

SpecGate == GateInit /\ [][GateNext]_vars

----------------------------------------------------------------------------
(* One call of the domain layer and of the merchant layer *)

DomainHosts ==
    { <<"a", "m", "a", "z", "o", "n", ".", "c", "o", "m">>,
      <<"A", "M", "A", "Z", "O", "N", ".", "c", "o", "m">>,
      <<"e", "b", "a", "y", ".", "c", "o", "m">>,
      <<"p", "a", "y", "p", "a", "l", ".", "c", "o", "m">>,
      <<"w", "w", "w", ".", "a", "m", "a", "z", "o", "n", ".", "c", "o", "m">>,
      <<"a", "m", "z", "o", "n", ".", "c", "o", "m">>,
      <<"a", "m", "z", "o", "n">>,
      <<"p", "a", "y", "p", "4", "l", ".", "c", "o", ".", "u", "k">>,
      <<"a", "m", "a", "z", "0", "n", ".", "c", "o", "m">>,
      <<"a", "m", "a", "z", "o", "n", "n", ".", "c", "o", "m">>,
      <<"p", "a", "y", "p", "p", "l", "e", ".", "c", "o", "m">>,
      <<"a", "m", "a", "z", "o", "n", ".", "c", "o", "m", ".", "a", "m", "a", "z", "0", "n", ".", "n", "e", "t">>,
      <<"f", "l", "i", "p", "k", "r", "t", ".", "t", "k">>,
      <<"v", "e", "r", "i", "f", "y", "-", "a", "c", "c", "o", "u", "n", "t", ".", "a", "m", "z", "o", "n", ".", "c", "o", "m">>,
      <<"s", "h", "o", "p", ".", "e", "x", "a", "m", "p", "l", "e", ".", "c", "o", "m">>,
      <<"a", ".", "b", ".", "g", "o", "g", "l", "e", ".", "e", "x", "a", "m", "p", "l", "e", ".", "c", "o", "m", ".", "a", "m", "z", "o", "n", ".", "n", "e", "t">>,
      <<"m", "y", "-", "b", "i", "g", "-", "s", "h", "o", "p", "-", "1", "2", "3", ".", "m", "y", "s", "h", "o", "p", "i", "f", "y", ".", "c", "o", "m">>,
      <<"x", "n", "-", "-", "p", "p", "l", "e", "-", "4", "3", "d", ".", "c", "o", "m">> }

DomainUrls == { [scheme |-> s, host |-> h] : s \in {"https", "http"}, h \in DomainHosts }

YoungDays == 10
RecentDays == 100
OldDays == 400

\* outcomes of _domain_age_days: None, or the days since creation
AgeOutcomes ==
    { [known |-> FALSE, days |-> 0] }
      \cup { [known |-> TRUE, days |-> n] : n \in {YoungDays, RecentDays, OldDays} }

IdnaOutcomes == { "missing", "valid", "invalid" }

HtmlInputs == { "none", "page" }

LayersInit ==
    /\ FeedbackIdle
    /\ BadgeIdle
    /\ WeightsIdle
    /\ GateIdle
    /\ EvalIdle
    /\ TwiceIdle
    /\ PairIdle
    /\ l_pc = "call"
    /\ l_url \in DomainUrls
    /\ l_age \in AgeOutcomes
    /\ l_idna \in IdnaOutcomes
    /\ l_html \in HtmlInputs
    /\ l_typo = 0
    /\ l_dom = NoLR
    /\ l_mer = NoLR

\* li_domain.analyze(url) and li_merchant.analyze(url, html_content)
LayersCall ==
    /\ l_pc = "call"
    /\ l_typo' = detect_typosquatting(UrlHostname(l_url))
    /\ l_dom' = domain_analyze(l_url, l_age, l_idna)
    /\ \E r \in merchant_analyze(l_url, l_html) : l_mer' = r
    /\ l_pc' = "ret"
    /\ UNCHANGED <<l_url, l_age, l_idna, l_html>>
    /\ UNCHANGED non_lvars

LayersNext == LayersCall

SpecLayers == LayersInit /\ [][LayersNext]_vars

----------------------------------------------------------------------------
(* Two calls of apply_safety_gates on the same url *)

MaxPairReasons == 2

PairUrls == { [scheme |-> "https", host |-> h] : h \in { H_amazon, H_shop, H_verify } }

PairRaws == { 0, Pt(17), Pt(18) - 1, Pt(18), Pt(25), Pt(45), Pt(70), Pt(100) }

PairReasonChoices ==
    { [layer |-> "content_ux", message |-> <<"content_ux", "timed", "out">>],
      [layer |-> "domain_infra", message |-> <<"risk", "is", "CRITICAL">>],
      [layer |-> "threat_intel", message |-> <<"THREAT", "intel", "unavailable">>],
      [layer |-> "visual_brand", message |-> <<"Visual_brand", "checks", "not", "enabled">>] }

PairReasonLists ==
    UNION { [1..n -> PairReasonChoices] : n \in 0..MaxPairReasons }

\* the lists holding the elements of rs in some order
Reorderings(rs) ==
    { [i \in 1..Len(rs) |-> rs[p[i]]] :
        p \in { q \in [1..Len(rs) -> 1..Len(rs)] :
                  \A i, j \in 1..Len(rs) : q[i] = q[j] => i = j } }

PairInit ==
    /\ FeedbackIdle
    /\ BadgeIdle
    /\ WeightsIdle
    /\ GateIdle
    /\ EvalIdle
    /\ TwiceIdle
    /\ LayersIdle
    /\ p_pc = "call1"
    /\ p_url \in PairUrls
    /\ p_rs1 \in PairReasonLists
    /\ p_rs2 \in Reorderings(p_rs1)
    /\ p_raw1 \in PairRaws
    /\ p_raw2 \in PairRaws
    /\ p_out1 = NoResult
    /\ p_out2 = NoResult

\* first call of apply_safety_gates(url, reasons, raw_score)
PairCall1 ==
    /\ p_pc = "call1"
    /\ p_out1' = apply_safety_gates(p_url, p_rs1, p_raw1)
    /\ p_pc' = "call2"
    /\ UNCHANGED <<p_url, p_rs1, p_rs2, p_raw1, p_raw2, p_out2>>
    /\ UNCHANGED non_pvars

\* second call of apply_safety_gates(url, reasons, raw_score)
PairCall2 ==
    /\ p_pc = "call2"
    /\ p_out2' = apply_safety_gates(p_url, p_rs2, p_raw2)
    /\ p_pc' = "ret"
    /\ UNCHANGED <<p_url, p_rs1, p_rs2, p_raw1, p_raw2, p_out1>>
    /\ UNCHANGED non_pvars

PairNext ==
    \/ PairCall1
    \/ PairCall2

SpecPair == PairInit /\ [][PairNext]_vars

----------------------------------------------------------------------------
(* Properties *)

CautionOrWorse == { "Caution", "High Risk", "Critical" }

HighOrWorse == { "High Risk", "Critical" }

\* one reason's own message names typosquatting, a critical threat or a homograph
ReasonIsCritical(r) ==
    \/ Contains(LowerMsg(r.message), <<"typosquatting">>)
    \/ Contains(LowerMsg(r.message), <<"critical", "threat">>)
    \/ Contains(LowerMsg(r.message), <<"homograph">>)

AnyReasonCritical(rs) == \E i \in 1..Len(rs) : ReasonIsCritical(rs[i])

GateHost == Hostname(g_url)

GateFailures == CountFailures(GateHost, g_reasons)

GateTokenHit == host_tokens(GateHost) \cap PHISHING_TOKENS # {}

\* C1: when some reason's message contains, in any letter case,
\* "typosquatting", "critical threat" or "homograph", apply_safety_gates
\* returns a score of at least 70 and the badge High Risk or Critical,
\* whatever the url, the raw score and the other reasons.
C1_CriticalWordingFloor ==
    (g_pc = "ret" /\ AnyReasonCritical(g_reasons))
        => (g_out.score >= Pt(70) /\ g_out.badge \in HighOrWorse)

\* a call on an allow-listed host with a raw score below 18 and a critical
\* reason, lifted to exactly 70
C1_Witness ==
    /\ g_pc = "ret"
    /\ AnyReasonCritical(g_reasons)
    /\ is_verified_host(GateHost)
    /\ g_raw < Pt(18)
    /\ g_out.score = Pt(70)
    /\ g_out.badge = "Critical"

\* C2: with a failure count of at least 1 the badge is Caution, High Risk or
\* Critical, except for exactly 1 failure on an allow-listed host; so 3 or
\* more failures on another host give at least Caution below a raw score of 18.
C2_FailureFloor ==
    (g_pc = "ret" /\ GateFailures >= 1
        /\ ~(GateFailures = 1 /\ is_verified_host(GateHost)))
        => g_out.badge \in CautionOrWorse

\* three failures on a plain host with raw score 0: the bucket of the score
\* (20, Low Risk) is raised to the floor
C2_Witness ==
    /\ g_pc = "ret"
    /\ GateFailures >= 3
    /\ GateHost = H_shop
    /\ g_raw = 0
    /\ ~AnyReasonCritical(g_reasons)
    /\ g_out = [score |-> Pt(20), badge |-> "Caution"]

\* C3: the score apply_safety_gates returns lies in [0,100] for every raw
\* score, also below 0 and above 100, and every combination of rules.
C3_ScoreInRange ==
    g_pc = "ret" => (0 <= g_out.score /\ g_out.score <= Pt(100))

\* raw score 130 with the failure and phishing-token rules both adding to it
C3_Witness ==
    /\ g_pc = "ret"
    /\ g_raw = Pt(130)
    /\ GateFailures >= 3
    /\ GateTokenHit /\ ~is_verified_host(GateHost)
    /\ g_out.score = Pt(100)

\* C4: the score and badge check_site returns and stores are the Safety Gate
\* applied to the clamped weighted sum, each additive rule counted once.
C4_GatedOnce ==
    pc = "Responded" =>
        \E g \in { apply_safety_gates(url, reasons, total) } :
            /\ resp.risk_score = g.score
            /\ resp.badge = g.badge
            /\ scans = << [url |-> url, risk_score |-> g.score, badge |-> g.badge] >>

LayerOrder ==
    << "domain_infra", "content_ux", "business_verification",
       "technical_verification", "merchant_verification", "visual_brand",
       "threat_intel", "user_feedback" >>

Aggregated == pc \in { "Gating", "Done", "Responded" }

ReasonOf(layer) == reasons[CHOOSE i \in 1..Len(LayerOrder) : LayerOrder[i] = layer]

\* C5: whatever the six concurrent layers do (return, raise, time out),
\* evaluate_all does not raise; it returns a score and 8 reasons in the fixed
\* layer order, and a layer that returned contributes its own score and
\* message.
C5_NeverRaises ==
    /\ pc # "Raised"
    /\ Aggregated =>
        /\ Len(reasons) = 8
        /\ \A i \in 1..8 : reasons[i].layer = LayerOrder[i]
        /\ \A l \in CL : status[l] = "returned" =>
              /\ ReasonOf(l).score = res[l].score
              /\ ReasonOf(l).message = res[l].message
    /\ pc = "Done" => (0 <= ret /\ ret <= Pt(100))

\* evaluate_all has returned although one layer raised, one timed out and
\* one returned
C5_Witness ==
    /\ pc = "Done"
    /\ \E l \in CL : status[l] = "raised"
    /\ \E l \in CL : status[l] = "timedout"
    /\ \E l \in CL : status[l] = "returned"

AggregationStarted == pc \in { "Aggregating", "Gating", "Done", "Responded" }

\* C6: aggregation starts only after all six tasks have settled, and no
\* layer result is written once it has started.
C6_JoinBeforeAggregate ==
    /\ [](AggregationStarted =>
            \A l \in CL : status[l] \in { "returned", "raised", "timedout" })
    /\ [][AggregationStarted => (res' = res /\ status' = status)]_vars

\* aggregation is about to run on a mix of timed-out and returned layers
C6_Witness ==
    /\ pc = "Aggregating"
    /\ \E l \in CL : status[l] = "timedout"
    /\ \E l \in CL : status[l] = "returned"
    /\ now >= t0 + 10

ClaimedTimeout ==
    [ content_ux |-> 8, visual_brand |-> 5, threat_intel |-> 8,
      business_verification |-> 10, technical_verification |-> 8,
      merchant_verification |-> 10 ]

ClaimedFallback ==
    [ content_ux |-> 15, visual_brand |-> 5, threat_intel |-> 0,
      business_verification |-> 25, technical_verification |-> 15,
      merchant_verification |-> 30 ]

\* C7: a layer that does not finish within its timeout is recorded with its
\* fallback score and "<layer> timed out"; a layer that raises is recorded
\* with the same score and another message; a result produced after the
\* timeout is never used.
C7_TimeoutFallback ==
    \A l \in CL :
        /\ (Settled(l) /\ late[l]) =>
              res[l] = [score |-> ClaimedFallback[l], message |-> <<l, "timed", "out">>]
        /\ status[l] = "timedout" => now >= t0 + ClaimedTimeout[l]
        /\ status[l] = "raised" =>
              /\ res[l].score = ClaimedFallback[l]
              /\ res[l].message # <<l, "timed", "out">>
              /\ Contains(LowerMsg(res[l].message), <<"failed">>)

LargestTimeout ==
    CHOOSE t \in { ClaimedTimeout[l] : l \in CL } :
        \A l \in CL : ClaimedTimeout[l] <= t

\* C8: evaluate_all completes no later than the time of the domain layer
\* plus the largest per-layer timeout plus the time of the feedback layer.
C8_LatencyBound ==
    /\ pc \in { "FeedbackLayerRunning", "Aggregating", "Gating", "Done", "Responded" }
          => t_join - t0 <= LargestTimeout
    /\ pc \in { "Done", "Responded" } => now <= sync_time + LargestTimeout

\* C9: the raw score handed to the Safety Gate is the weighted sum of the 8
\* layer scores (domain score after the boost) clamped to [0,100], and each
\* Reason records the score and weight that entered the sum.
C9_WeightedSum ==
    Aggregated =>
        /\ total = Min(Pt(100), Max(0,
                     d.score * 25
                   + res["content_ux"].score * 10
                   + res["business_verification"].score * 15
                   + res["technical_verification"].score * 8
                   + res["merchant_verification"].score * 30
                   + res["visual_brand"].score * 5
                   + res["threat_intel"].score * 12
                   + feedback.score * 5))
        /\ reasons[1].score = d.score /\ reasons[1].weight = 25
        /\ reasons[2].score = res["content_ux"].score /\ reasons[2].weight = 10
        /\ reasons[3].score = res["business_verification"].score /\ reasons[3].weight = 15
        /\ reasons[4].score = res["technical_verification"].score /\ reasons[4].weight = 8
        /\ reasons[5].score = res["merchant_verification"].score /\ reasons[5].weight = 30
        /\ reasons[6].score = res["visual_brand"].score /\ reasons[6].weight = 5
        /\ reasons[7].score = res["threat_intel"].score /\ reasons[7].weight = 12
        /\ reasons[8].score = feedback.score /\ reasons[8].weight = 5

\* the sum is about to be gated after the boost raised the domain score and
\* with a feedback score that counts
C9_Witness ==
    /\ pc = "Gating"
    /\ Contains(d.message, <<"SUSPICIOUS">>)
    /\ feedback.score = 80
    /\ total > Pt(40)

\* C10: on a host outside the allow-list, with no reason naming
\* typosquatting, a critical threat or a homograph, the returned score is
\* min(100, max(0, raw + 20 if failures >= 3 + 25 if a host token is a
\* phishing word)), and the badge is at least Caution when both rules fire.
C10_AdditiveScore ==
    (g_pc = "ret" /\ ~is_verified_host(GateHost) /\ ~AnyReasonCritical(g_reasons))
        => /\ g_out.score =
                Min(Pt(100), Max(0, g_raw
                    + (IF GateFailures >= 3 THEN Pt(20) ELSE 0)
                    + (IF GateTokenHit THEN Pt(25) ELSE 0)))
           /\ (GateFailures >= 3 /\ GateTokenHit) => g_out.badge \in CautionOrWorse

\* C11: for a url whose host is in the allow-list of the layers, the domain
\* layer and the merchant layer both return score 0, whatever the scheme,
\* the registration age, the idna outcome and the pre-fetched html.
C11_AllowListedZero ==
    (l_pc = "ret" /\ LowerStr(l_url.host) \in VERIFIED_MAJOR_PLATFORMS)
        => (l_dom.score = 0 /\ l_mer.score = 0)

\* an allow-listed host written in capitals, over http, registered 10 days
\* ago, with pre-fetched html: both layers returned 0
C11_Witness ==
    /\ l_pc = "ret"
    /\ l_url = [scheme |-> "http",
                host |-> <<"A", "M", "A", "Z", "O", "N", ".", "c", "o", "m">>]
    /\ l_age.known /\ l_age.days < 30
    /\ l_html = "page"
    /\ l_dom.score = 0
    /\ l_mer.score = 0

\* C12: an evaluation of an allow-listed host with no feedback record for
\* the url ends with badge Verified Safe and score 0, whatever the other
\* layers' network access does.
C12_AllowListedVerifiedSafe ==
    (pc = "Responded" /\ is_verified_host(Hostname(url))
        /\ feedback = summarize_feedback([delivered |-> 0, failed |-> 0]))
        => (resp.badge = "Verified Safe" /\ resp.risk_score = 0)

\* parts[-2] of the host in lower case, parts[0] for a single label
ClaimedSecondLevel ==
    LET labels == SplitOn(LowerStr(l_url.host), ".")
    IN labels[IF Len(labels) >= 2 THEN Len(labels) - 1 ELSE 1]

\* C13: for a host outside the allow-list whose second-level label is in
\* the table of known typosquat strings, the typosquatting detector returns
\* 85 and the domain layer's score is at least 80, whatever the scheme, the
\* age and the other heuristics add.
C13_KnownTyposquat ==
    (l_pc = "ret" /\ LowerStr(l_url.host) \notin VERIFIED_MAJOR_PLATFORMS
        /\ ClaimedSecondLevel \in typosquat_patterns)
        => (l_typo = 85 /\ l_dom.score >= 80)

\* amzon.com behind a subdomain, over https, with an old registration
C13_Witness ==
    /\ l_pc = "ret"
    /\ l_url.scheme = "https"
    /\ Len(SplitOn(l_url.host, ".")) = 3
    /\ ClaimedSecondLevel = <<"a", "m", "z", "o", "n">>
    /\ l_age.known /\ l_age.days >= 180
    /\ l_typo = 85
    /\ l_dom.score >= 85

\* Verified Safe < Low Risk < Caution < High Risk < Critical
Severity(b) ==
    CASE b = "Verified Safe" -> 0
      [] b = "Low Risk" -> 1
      [] b = "Caution" -> 2
      [] b = "High Risk" -> 3
      [] b = "Critical" -> 4

\* C14: for a fixed url and an empty list of reasons, the badge returned by
\* apply_safety_gates is non-decreasing in the raw score over [0,100]:
\* s1 <= s2 implies badge(s1) <= badge(s2).
C14_BadgeMonotone ==
    (p_pc = "ret" /\ p_rs1 = <<>> /\ p_rs2 = <<>>
        /\ 0 <= p_raw1 /\ p_raw1 <= p_raw2 /\ p_raw2 <= Pt(100))
        => Severity(p_out1.badge) <= Severity(p_out2.badge)

\* two calls without reasons on a plain host, one hundredth below 18 and
\* at 18: the badge steps from Verified Safe to Low Risk
C14_Witness ==
    /\ p_pc = "ret"
    /\ p_rs1 = <<>> /\ p_rs2 = <<>>
    /\ p_url.host = H_shop
    /\ p_raw1 = Pt(18) - 1 /\ p_raw2 = Pt(18)
    /\ p_out1.badge = "Verified Safe"
    /\ p_out2.badge = "Low Risk"

AllLayers ==
    { "domain_infra", "content_ux", "business_verification",
      "technical_verification", "merchant_verification", "visual_brand",
      "threat_intel", "user_feedback" }

\* the weight table is malformed, or lacks one of the 8 aggregated layers
WeightsUnusable ==
    \/ w_json.kind \in {"not_json", "not_object", "non_numeric"}
    \/ w_json.kind = "object" /\ DOMAIN w_json.table # AllLayers

\* C16: with a weight table that is malformed or lacks an entry for one of
\* the 8 layers, the evaluation aborts with a configuration error and
\* returns no assessment
C16_BadWeightsAbort ==
    (w_pc = "ret" /\ WeightsUnusable) => w_out.kind = "aborted"

\* C17: to_badge gives Trusted below 40, Caution from 40 up to but not
\* including 70, High Risk from 70 on; 40 and 70 belong to the upper range
C17_BadgeRanges ==
    b_pc = "ret" =>
        /\ b_score < Pt(40) => b_badge = "Trusted"
        /\ (Pt(40) <= b_score /\ b_score < Pt(70)) => b_badge = "Caution"
        /\ b_score >= Pt(70) => b_badge = "High Risk"

\* to_badge was called on the boundary 70
C17_Witness ==
    /\ b_pc = "ret"
    /\ b_score = Pt(70)
    /\ b_badge = "High Risk"

\* the failure markers of the layer contract
ClaimedMarkers ==
    { <<"timed", "out">>, <<"could", "not", "fetch">>, <<"failed">>,
      <<"not", "found">> }

\* how many of content_ux, business, technical, merchant have score >= 25 and
\* a message with a failure marker
ClaimedFailing ==
    Cardinality({ l \in { "content_ux", "business_verification",
                          "technical_verification", "merchant_verification" } :
                    /\ res[l].score >= 25
                    /\ \E k \in ClaimedMarkers :
                          Contains(LowerMsg(res[l].message), k) })

C19_TokenFloor ==
    (g_pc = "ret" /\ ~is_verified_host(GateHost) /\ GateTokenHit)
        => g_out.badge \in CautionOrWorse

\* the floor the rules of the gate arrive at for the call
ClaimedFloor ==
    IF CriticalWording(LowerMsg(JoinMessages(g_reasons))) THEN "High Risk"
    ELSE IF GateTokenHit /\ ~is_verified_host(GateHost) THEN "Caution"
    ELSE IF GateFailures >= 3 THEN "Caution"
    ELSE IF GateFailures >= 1 /\ ~(is_verified_host(GateHost) /\ GateFailures = 1)
         THEN "Caution"
    ELSE "Verified Safe"

\* <25 Low Risk, <45 Caution, <70 High Risk, otherwise Critical
ClaimedBucket(score) ==
    IF score < Pt(25) THEN "Low Risk"
    ELSE IF score < Pt(45) THEN "Caution"
    ELSE IF score < Pt(70) THEN "High Risk"
    ELSE "Critical"

C21_OrderIndependent ==
    (p_pc = "ret" /\ p_raw1 = p_raw2) => p_out1 = p_out2

\* the reasons the layer contract's vocabulary marks as failures, leaving out
\* merchant_verification reasons on an allow-listed host
ClaimedGateFailures ==
    Cardinality({ i \in 1..Len(g_reasons) :
        /\ ~(is_verified_host(GateHost)
               /\ g_reasons[i].layer = "merchant_verification")
        /\ \E k \in ClaimedMarkers :
              Contains(LowerMsg(g_reasons[i].message), k) })

\* C22: the failure count of the gate includes every reason (other than a
\* merchant_verification reason on an allow-listed host) whose message has
\* "timed out", "could not fetch", "failed" or "not found"; such a reason
\* therefore keeps the badge from being Verified Safe
C22_ContractMarkersCounted ==
    g_pc = "ret" =>
        /\ GateFailures >= ClaimedGateFailures
        /\ ClaimedGateFailures >= 1 => g_out.badge # "Verified Safe"

\* C23: in the concurrent phase no layer keeps the others from running:
\* while a layer is busy with its network call the timers of the others
\* still fire when due, so no layer is left suspended past its own timeout
C23_NoLayerBlocks ==
    pc = "ConcurrentLayersRunning" =>
        \A l \in CL : status[l] = "waiting" => now <= t0 + ClaimedTimeout[l]

\* the phases of an evaluation, then the response of check_site
ClaimedPhases ==
    << "Start", "DomainLayerRunning", "ConcurrentLayersRunning",
       "FeedbackLayerRunning", "Aggregating", "Gating", "Done", "Responded" >>

PhaseIndex(p) == CHOOSE i \in 1..Len(ClaimedPhases) : ClaimedPhases[i] = p

\* C24: an evaluation passes through Start, DomainLayerRunning,
\* ConcurrentLayersRunning, FeedbackLayerRunning, Aggregating, Gating, Done
\* in that order, each once; the domain layer has returned before a
\* concurrent layer is started; feedback is read only after the six tasks
\* have settled; no layer is invoked again once it has an outcome
C24_PhaseOrder ==
    /\ [](pc \in { ClaimedPhases[i] : i \in 1..Len(ClaimedPhases) })
    /\ [][pc' # pc => PhaseIndex(pc') = PhaseIndex(pc) + 1]_vars
    /\ []((\E l \in CL : status[l] # "new") => d0 # NoLR)
    /\ [](feedback # NoLR =>
            \A l \in CL : status[l] \in { "returned", "raised", "timedout" })
    /\ [][\A l \in CL :
            /\ status[l] # "new" => status'[l] # "new"
            /\ status[l] \in { "returned", "raised", "timedout" } =>
                  (status'[l] = status[l] /\ res'[l] = res[l])]_vars
    /\ [][(d0 # NoLR => d0' = d0) /\ (feedback # NoLR => feedback' = feedback)]_vars
    /\ [](pc = "Done" =>
            /\ d0 # NoLR
            /\ feedback # NoLR
            /\ \A l \in CL : res[l] # NoLR)

\* the evaluation is done; one layer had timed out and another had raised,
\* and neither was tried again
C24_Witness ==
    /\ pc = "Done"
    /\ \E l \in CL : status[l] = "timedout"
    /\ \E l \in CL : status[l] = "raised"

\* the host is a canonical domain of brand i, or a name under one
ClaimedCanonical(i) ==
    \E c \in CANONICAL_BRANDS[i].canon :
        \/ LowerStr(l_url.host) = c
        \/ EndsWith(LowerStr(l_url.host), <<".">> \o c)

\* the brands the label is to be compared with
ClaimedRivals == { i \in 1..Len(CANONICAL_BRANDS) : ~ClaimedCanonical(i) }

\* the number of positions in which two strings of equal length differ
ClaimedDiff(x, y) == Cardinality({ i \in 1..Len(x) : x[i] # y[i] })

\* some brand the host is no canonical domain of has the length of the
\* second-level label and differs from it in exactly n positions
ClaimedSubstitution(n) ==
    \E i \in ClaimedRivals :
        /\ Len(CANONICAL_BRANDS[i].brand) = Len(ClaimedSecondLevel)
        /\ ClaimedDiff(ClaimedSecondLevel, CANONICAL_BRANDS[i].brand) = n

\* C25: for a second-level label outside the table of known typosquats and
\* a brand the host is no canonical domain of, the detector returns 80 when
\* the label has the brand's length and differs from it in exactly 1
\* position, 70 when in exactly 2; a canonical domain of a brand is not
\* scored against it
C25_CharSubstitution ==
    (l_pc = "ret" /\ ClaimedSecondLevel \notin typosquat_patterns) =>
        /\ ClaimedSubstitution(1) => l_typo = 80
        /\ (ClaimedSubstitution(2) /\ ~ClaimedSubstitution(1)) => l_typo = 70
        /\ (\E i \in 1..Len(CANONICAL_BRANDS) :
               /\ ClaimedCanonical(i)
               /\ ClaimedSecondLevel = CANONICAL_BRANDS[i].brand) => l_typo = 0

\* some brand the host is no canonical domain of is similar to the
\* second-level label with a ratio of at least pct / 100
ClaimedSimilar(pct) ==
    \E i \in ClaimedRivals :
        RatioAtLeast(ClaimedSecondLevel, CANONICAL_BRANDS[i].brand, pct)

ClaimedHosted ==
    \E suf \in HOSTED_STOREFRONT_SUFFIXES : EndsWith(LowerStr(l_url.host), suf)

\* the penalty of the highest threshold reached, 0 for none
ClaimedLookalikePenalty ==
    IF ClaimedHosted THEN 0
    ELSE IF ClaimedSimilar(90) THEN 65
    ELSE IF ClaimedSimilar(82) THEN 45
    ELSE IF ClaimedSimilar(75) THEN 25
    ELSE 0

\* the penalty the second pass added, read off the reason it appended
AddedLookalikePenalty ==
    IF Contains(l_dom.message, <<"Typosquatting", "attack", "detected">>) THEN 65
    ELSE IF Contains(l_dom.message, <<"Brand", "lookalike", "domain">>) THEN 45
    ELSE IF Contains(l_dom.message, <<"Similar", "to", "known", "brand">>) THEN 25
    ELSE 0

\* C26: on a host outside the allow-list the second similarity pass adds
\* one penalty at most, that of the highest threshold some brand (one the
\* host is no canonical domain of) reaches: +65 from 0.90, +45 from 0.82,
\* +25 from 0.75, none below; nothing on a hosted storefront
C26_LookalikePenalty ==
    (l_pc = "ret" /\ LowerStr(l_url.host) \notin VERIFIED_MAJOR_PLATFORMS)
        => AddedLookalikePenalty = ClaimedLookalikePenalty

\* reports stored for url u, and the non-deliveries among them
ClaimedReports(table, u) == { i \in 1..Len(table) : table[i].url = u }

ClaimedNonDeliveries(table, u) ==
    { i \in ClaimedReports(table, u) : ~table[i].delivered }

\* 5 without records, 0 without a non-delivery, else min(100, 80 x
\* non-deliveries / reports)
ClaimedFeedbackScore(table, u) ==
    IF ClaimedReports(table, u) = {} THEN 5
    ELSE IF ClaimedNonDeliveries(table, u) = {} THEN 0
    ELSE Min(100, (80 * Cardinality(ClaimedNonDeliveries(table, u)))
                     \div Cardinality(ClaimedReports(table, u)))

\* what the feedback layer answers for u on the table
FeedbackScoreOn(table, u) == summarize_feedback(feedback_query(table, u)).score

\* C27: after any sequence of submissions the feedback score of a url is 5
\* without records for it, 0 with records and no non-delivery, otherwise
\* min(100, 80 x non-deliveries / reports); it lies in [0,80]; a submission
\* for another url leaves it as it was; one more non-delivery for the url
\* never lowers it
C27_FeedbackScore ==
    /\ [](f_last.result # NoLR =>
            /\ f_last.result.score >= 0
            /\ f_last.result.score <= 80)
    /\ [][f_last' # f_last =>
            f_last'.result.score = ClaimedFeedbackScore(f_table, f_last'.url)]_vars
    /\ [][\A u \in Urls :
            /\ (f_table' # f_table /\ f_table'[Len(f_table')].url # u) =>
                  FeedbackScoreOn(f_table', u) = FeedbackScoreOn(f_table, u)
            /\ (f_table' = Append(f_table, [url |-> u, delivered |-> FALSE])) =>
                  FeedbackScoreOn(f_table', u) >= FeedbackScoreOn(f_table, u)]_vars

\* the score of a url was read with reports for both urls in the table, a
\* non-delivery among those of the url read
C27_Witness ==
    /\ Len(f_table) >= 3
    /\ \E i \in 1..Len(f_table) : f_table[i].url # f_last.url
    /\ \E i \in 1..Len(f_table) :
          f_table[i].url = f_last.url /\ ~f_table[i].delivered
    /\ \E i \in 1..Len(f_table) :
          f_table[i].url = f_last.url /\ f_table[i].delivered
    /\ f_last.result.score = 40
    /\ f_last.result.score = ClaimedFeedbackScore(f_table, f_last.url)

ClaimedCorrelated ==
    { "content_ux", "business_verification", "technical_verification",
      "merchant_verification" }

\* content_ux, business, technical and merchant were all replaced by the
\* fallback of _with_timeout
AllFourFellBack ==
    \A l \in ClaimedCorrelated : status[l] \in { "raised", "timedout" }

\* C28: when content_ux, business_verification, technical_verification and
\* merchant_verification are all replaced by their timeout or error
\* fallbacks, they carry the scores 15, 25, 15 and 30, only business and
\* merchant have a score >= 25, and the domain layer's score and message
\* are reported as the layer returned them (no boost of 35)
C28_FallbacksNeverBoost ==
    (Aggregated /\ AllFourFellBack) =>
        /\ \A l \in ClaimedCorrelated : res[l].score = ClaimedFallback[l]
        /\ { l \in ClaimedCorrelated : res[l].score >= 25 } =
              { "business_verification", "merchant_verification" }
        /\ d = d0
        /\ ReasonOf("domain_infra").score = d0.score
        /\ ReasonOf("domain_infra").message = d0.message

\* all four fell back, some by timeout and some by an exception, and the
\* evaluation was aggregated
C28_Witness ==
    /\ pc = "Gating"
    /\ AllFourFellBack
    /\ \E l \in ClaimedCorrelated : status[l] = "raised"
    /\ \E l \in ClaimedCorrelated : status[l] = "timedout"
    /\ ReasonOf("content_ux").score = 15
    /\ ReasonOf("merchant_verification").score = 30

\* C29: whenever the cross-layer boost fires, the domain reason carries a
\* failure marker ("failed"), so the gate of evaluate_all and the gate of
\* check_site on these reasons never answer "Verified Safe", and on a host
\* outside the allow-list they answer at least "Caution"
C29_BoostNeverVerifiedSafe ==
    (Aggregated /\ ClaimedFailing >= 3) =>
        /\ Contains(LowerMsg(ReasonOf("domain_infra").message), <<"failed">>)
        /\ apply_safety_gates(url, reasons, total).badge # "Verified Safe"
        /\ ~is_verified_host(Hostname(url)) =>
              apply_safety_gates(url, reasons, total).badge \in CautionOrWorse
        /\ pc = "Responded" =>
              /\ resp.badge # "Verified Safe"
              /\ ~is_verified_host(Hostname(url)) => resp.badge \in CautionOrWorse

\* the boost fired on a plain host outside the allow-list and check_site
\* answered
C29_Witness ==
    /\ pc = "Responded"
    /\ ClaimedFailing >= 3
    /\ url.host = H_shop
    /\ d.score = d0.score + 35
    /\ resp.badge \in CautionOrWorse

\* C30: in every result returned by check_site the advice is consistent
\* with the badge: a "Caution", "High Risk" or "Critical" result never
\* carries the payment advice "Safe to proceed", and a "High Risk" or
\* "Critical" result carries neither "Safe to proceed" nor "Generally safe
\* with minor concerns"
C30_AdviceMatchesBadge ==
    pc = "Responded" =>
        /\ resp.badge \in CautionOrWorse => resp.payment # "Safe to proceed"
        /\ resp.badge \in HighOrWorse =>
              resp.payment \notin { "Safe to proceed",
                                    "Generally safe with minor concerns" }

====
